---- MODULE Spec2Model ----
(***************************************************************************)
(* A model of the canvas engine of src/graph/workflow.ts (class Workflow): *)
(* the viewport transform, the drag sessions (node move, pan, port draw),  *)
(* the boundary auto-scroll timer, the port connection resolver, the       *)
(* selection manager and the auto-arrange layering.                        *)
(*                                                                         *)
(* Real numbers (scale, matrix entries, positions) are exact rationals     *)
(* <<n, d>> with d > 0 in lowest terms, so equal values are equal tuples.  *)
(***************************************************************************)
EXTENDS Integers, Sequences, FiniteSets, TLC

(***************************************************************************)
(* Exact rational arithmetic.                                              *)
(***************************************************************************)
Abs(i) == IF i < 0 THEN -i ELSE i

RECURSIVE GCD(_, _)
GCD(a, b) == IF b = 0 THEN a ELSE GCD(b, a % b)

Norm(n, d) ==
    LET g == GCD(Abs(n), Abs(d))
        s == IF d < 0 THEN -1 ELSE 1
    IN  <<(s * n) \div g, (s * d) \div g>>

R(i) == <<i, 1>>
Frac(n, d) == Norm(n, d)
RAdd(a, b) == Norm(a[1] * b[2] + b[1] * a[2], a[2] * b[2])
RSub(a, b) == Norm(a[1] * b[2] - b[1] * a[2], a[2] * b[2])
RMul(a, b) == Norm(a[1] * b[1], a[2] * b[2])
RDiv(a, b) == Norm(a[1] * b[2], a[2] * b[1])
RNeg(a) == <<-a[1], a[2]>>
RLt(a, b) == a[1] * b[2] < b[1] * a[2]
RLe(a, b) == a[1] * b[2] <= b[1] * a[2]
RAbs(a) == <<Abs(a[1]), a[2]>>
RMax(a, b) == IF RLt(a, b) THEN b ELSE a
RMin(a, b) == IF RLt(b, a) THEN b ELSE a
RZero == R(0)
ROne == R(1)

(***************************************************************************)
(* State.                                                                  *)
(***************************************************************************)
VARIABLES
    \* --- viewport ---
    scale,            \* this.scale
    matrix,           \* the .workflow group's transform matrix: [a (= d), e, f]
    zoomObs,          \* observation of the last scaleWorkflow / fitToViewport call
    fitListeners,     \* number of listeners the event hub holds for workflow.fit
    \* --- rendered canvas ---
    nodes,            \* node id -> [x, y, cls, pin, pout]: translation, classes,
                      \*   classes of its input port and of its output port
    nodeOrder,        \* the node elements in document order
    edges,            \* the edge elements in document order: [src, dst, cls]
    wfCls,            \* classes of the .workflow group
    \* --- data model (external collaborator) ---
    model,            \* [pos: node id -> [x, y], conns: sequence of <<src, dst>>]
    \* --- drag sessions ---
    isDragging,       \* this.isDragging
    dragBoundary,     \* this.dragBoundary
    dbi,              \* this.dragBoundaryInterval
    timers,           \* the live setInterval timers, with what their closures captured
    wbcr,             \* this.workflowBoundingClientRect
    session,          \* the pointer session of the drag dispatcher: [kind, down]
    nd,               \* closure of the node-move handlers: [el, startX, startY, newX, newY]
    pan,              \* closure of the pan handlers: [x, y]
    pd,               \* closure of the port-drag handlers
    \* --- observation ---
    effects,          \* what the handler that ran last emitted and called, in order
    budget,           \* number of input events and timer ticks handled so far
    obs,              \* history of the current drag session and of the last release
    \* --- auto-arrange (eventHub "workflow.arrange") ---
    arrConnections,   \* the connection list the last arrange command was given
    idToZoneMap,      \* node name -> zone, as left in idToZoneMap
    arrKeys,          \* Object.keys(tracker), in insertion order
    arrTrace,         \* observation of the depth traces: [depth, diverged, ran]
    arrPlaced         \* the paper's client size and the translation the command
                      \*   gave each node element: [width, height, at]

viewVars == <<scale, matrix, zoomObs, fitListeners>>
domVars == <<nodes, nodeOrder, edges, wfCls>>
scrollVars == <<dragBoundary, dbi, timers, wbcr>>
dragVars == <<isDragging, session, nd, pan, pd>>
arrVars == <<arrConnections, idToZoneMap, arrKeys, arrTrace, arrPlaced>>
uiVars == <<viewVars, domVars, model, scrollVars, dragVars, effects, budget, obs>>

vars == <<uiVars, arrVars>>

(***************************************************************************)
(* Program constants.                                                      *)
(***************************************************************************)
InitialDragBoundary == 50
DragBoundaryTranslation == 5
SnapRadius == 100
GhostThreshold == 120
FitPadding == 200
WheelDivisor == 500

(***************************************************************************)
(* The screen.  Pointer positions and rectangles are in client pixels.     *)
(***************************************************************************)
\* svgRoot.getBoundingClientRect() while a drag is handled.
SvgRect == [left |-> 0, top |-> 0, right |-> 1000, bottom |-> 600]

Pt(x, y) == [x |-> R(x), y |-> R(y)]

\* A value never assigned (undefined); no rational has denominator 0.
Undef == <<0, 0>>

\* wf.getScreenCTM() is the svg's place on the screen followed by the
\* group's matrix; translateMouseCoords maps a client point through its
\* inverse.
TranslateMouseCoords(m, x, y) ==
    [x |-> RDiv(RSub(RSub(x, R(SvgRect.left)), m.e), m.a),
     y |-> RDiv(RSub(RSub(y, R(SvgRect.top)), m.f), m.a)]

\* Where a canvas point is shown on the screen.
ToScreen(m, c) ==
    [x |-> RAdd(R(SvgRect.left), RAdd(m.e, RMul(m.a, c.x))),
     y |-> RAdd(R(SvgRect.top), RAdd(m.f, RMul(m.a, c.y)))]

\* A conversion that multiplies by the scale.
AdaptToScaleMul(x, sc) == RMul(x, sc)

\* adaptToScale(x) = x * (1 / this.scale)
AdaptToScale(x, sc) == RMul(x, RDiv(ROne, sc))

(***************************************************************************)
(* Viewport transform.                                                     *)
(***************************************************************************)
InBand(s) == RLt(Frac(15, 100), s) /\ RLe(RMul(s, s), R(3))

\* if (scale <= 0.15 || scale * scale > 3) return;
WheelRejects(s) == RLe(s, Frac(15, 100)) \/ RLt(R(3), RMul(s, s))

ScaleMatrixByNewScale(m, s, ax, ay) ==
    LET c == TranslateMouseCoords(m, ax, ay)
    IN  [a |-> s,
         e |-> RSub(RAdd(m.e, RMul(s, c.x)), RMul(s, c.x)),
         f |-> RSub(RAdd(m.f, RMul(s, c.y)), RMul(s, c.y))]

\* The matrix after scaleWorkflow(s, ev): ax, ay are ev.clientX, ev.clientY,
\* or 0, 0 without ev.
ScaleMatrix(m, s, ax, ay) ==
    LET c == TranslateMouseCoords(m, ax, ay)
    IN  [a |-> s,
         e |-> RSub(RAdd(m.e, RMul(m.a, c.x)), RMul(s, c.x)),
         f |-> RSub(RAdd(m.f, RMul(m.a, c.y)), RMul(s, c.y))]

ZoomNone(ext) ==
    [op |-> "none", anchored |-> FALSE, p |-> Pt(0, 0), c |-> Pt(0, 0),
     factor |-> ROne, rejected |-> FALSE, external |-> ext]

ZoomScaled(op, anchored, ax, ay, f, ext) ==
    [op |-> op, anchored |-> anchored, p |-> [x |-> ax, y |-> ay],
     c |-> TranslateMouseCoords(matrix, ax, ay),
     factor |-> f, rejected |-> FALSE, external |-> ext]

ViewInit ==
    /\ scale = ROne
    /\ matrix = [a |-> ROne, e |-> RZero, f |-> RZero]
    /\ zoomObs = ZoomNone(FALSE)
    /\ fitListeners = 1

(***************************************************************************)
(* The rendered canvas and the data model behind it.                       *)
(*                                                                         *)
(* A node carries at most one input port and one output port, so a port is *)
(* [role, node] and its connection id starts with "in" exactly when role   *)
(* is "in".  An edge joins the output port of src to the input port of dst.*)
(***************************************************************************)
NodeKind ==
    [S1 |-> "step", S2 |-> "step", S3 |-> "step", S4 |-> "step",
     I1 |-> "input", I2 |-> "input", O1 |-> "output", O2 |-> "output"]

\* Steps, then inputs, then outputs: the order renderModel lays nodes out in.
RenderOrder == <<"S1", "S2", "S3", "I1", "I2", "O1", "O2">>

NewInputIds == <<"I1", "I2">>
NewOutputIds == <<"O1", "O2">>

HasPort(n, role) ==
    \/ NodeKind[n] = "step"
    \/ NodeKind[n] = "input" /\ role = "out"
    \/ NodeKind[n] = "output" /\ role = "in"

Port(role, n) == [role |-> role, node |-> n]
NoPort == [role |-> "none", node |-> "none"]

\* Where the node template puts a port, relative to its node.
PortOffset == [in |-> -30, out |-> 30]

\* Geometry.getTransformToElement(port, workflow): the port's canvas position.
PortPos(ns, p) ==
    [x |-> RAdd(ns[p.node].x, R(PortOffset[p.role])), y |-> ns[p.node].y]

NodeEl(x, y) == [x |-> x, y |-> y, cls |-> {}, pin |-> {}, pout |-> {}]
EdgeEl(src, dst) == [src |-> src, dst |-> dst, cls |-> {}]

Dom == [nodes |-> nodes, order |-> nodeOrder, edges |-> edges, wf |-> wfCls]

SetDom(D) ==
    /\ nodes' = D.nodes
    /\ nodeOrder' = D.order
    /\ edges' = D.edges
    /\ wfCls' = D.wf

NodeRef(n) == [t |-> "node", id |-> n, idx |-> 0]
EdgeRef(i) == [t |-> "edge", id |-> "", idx |-> i]

\* querySelectorAll(".selected"), in document order: edges come before the
\* nodes, which renderModel re-appends after them.
SelectedEls(D) ==
    LET es == SelectSeq([i \in 1..Len(D.edges) |-> EdgeRef(i)],
                        LAMBDA r : "selected" \in D.edges[r.idx].cls)
        ns == SelectSeq([i \in 1..Len(D.order) |-> NodeRef(D.order[i])],
                        LAMBDA r : "selected" \in D.nodes[r.id].cls)
    IN  es \o ns

RemoveFirstSelected(D) ==
    LET sel == SelectedEls(D)
    IN  IF sel = <<>> THEN D
        ELSE IF sel[1].t = "edge"
        THEN [D EXCEPT !.edges[sel[1].idx].cls = @ \ {"selected"}]
        ELSE [D EXCEPT !.nodes[sel[1].id].cls = @ \ {"selected"}]

\* A sweep that reaches the node elements only.
ClearHighlightsOnNodes(D) ==
    [D EXCEPT
        !.nodes = [n \in DOMAIN D.nodes |->
                     [D.nodes[n] EXCEPT !.cls = @ \ {"highlighted"}]]]

\* querySelectorAll(".highlighted") swept, and has-selection taken off the
\* workflow group.
ClearHighlights(D) ==
    [D EXCEPT
        !.nodes = [n \in DOMAIN D.nodes |->
                     [D.nodes[n] EXCEPT !.cls = @ \ {"highlighted"},
                                        !.pin = @ \ {"highlighted"},
                                        !.pout = @ \ {"highlighted"}]],
        !.edges = [i \in 1..Len(D.edges) |->
                     [D.edges[i] EXCEPT !.cls = @ \ {"highlighted"}]],
        !.wf = @ \ {"has-selection"}]

DeselectKeepSelected(D) == ClearHighlights(D)

\* deselectEverything()
DeselectEverything(D) == RemoveFirstSelected(ClearHighlights(D))

\* highlightEdge(el)
HighlightEdge(D, i) ==
    LET e == D.edges[i]
    IN  [D EXCEPT
           !.nodes = [n \in DOMAIN D.nodes |->
                        [D.nodes[n] EXCEPT
                           !.pout = IF n = e.src THEN @ \cup {"highlighted"} ELSE @,
                           !.pin = IF n = e.dst THEN @ \cup {"highlighted"} ELSE @]]]

\* activateSelection(el).  An edge element has no data-id: nothing around
\* it is highlighted, it only becomes the selection.
ActivateSelection(D0, el) ==
    LET D == DeselectEverything(D0)
        touching == IF el.t = "node"
                    THEN {i \in 1..Len(D.edges) : D.edges[i].src = el.id \/ D.edges[i].dst = el.id}
                    ELSE {}
        ends == {D.edges[i].src : i \in touching} \cup {D.edges[i].dst : i \in touching}
        D1 == [D EXCEPT
                 !.wf = @ \cup {"has-selection"},
                 !.edges = [i \in 1..Len(D.edges) |->
                              IF i \in touching
                              THEN [D.edges[i] EXCEPT !.cls = @ \cup {"highlighted"}]
                              ELSE D.edges[i]],
                 !.nodes = [n \in DOMAIN D.nodes |->
                              IF n \in ends
                              THEN [D.nodes[n] EXCEPT !.cls = @ \cup {"highlighted"}]
                              ELSE D.nodes[n]]]
    IN  IF el.t = "node"
        THEN [D1 EXCEPT !.nodes[el.id].cls = @ \cup {"selected"}]
        ELSE [D1 EXCEPT !.edges[el.idx].cls = @ \cup {"selected"}]

\* Math.random() * 500, for a node the model stores no (or a zero) position for.
RandomCoords == {R(150), R(300)}

\* The data-connection-id of the first selected element; an edge carries
\* none, so nothing is looked up for it.
SelectionId(D) ==
    LET sel == SelectedEls(D)
    IN  IF sel # <<>> /\ sel[1].t = "node" THEN [t |-> "node", id |-> sel[1].id]
        ELSE [t |-> "none", id |-> ""]

\* The element of the new rendering that carries the identifier.
FindSelection(D, sid) ==
    IF sid.t = "node" /\ sid.id \in DOMAIN D.nodes THEN NodeRef(sid.id)
    ELSE [t |-> "none", id |-> "", idx |-> 0]

\* The canvas renderModel builds from the model, given the coordinates rx, ry
\* that Math.random yields, with the old selection reactivated.
RenderModel(D0, mdl, rx, ry) ==
    LET sid == SelectionId(D0)
        present == DOMAIN mdl.pos
        coord(v, r) == IF v = RZero \/ v = Undef THEN r ELSE v
        D == [nodes |-> [n \in present |->
                           NodeEl(coord(mdl.pos[n].x, rx), coord(mdl.pos[n].y, ry))],
              order |-> SelectSeq(RenderOrder, LAMBDA n : n \in present),
              edges |-> [i \in 1..Len(mdl.conns) |-> EdgeEl(mdl.conns[i].src, mdl.conns[i].dst)],
              wf |-> {}]
        found == FindSelection(D, sid)
    IN  IF found.t = "none" THEN D ELSE ActivateSelection(D, found)

InitialModel ==
    [pos |-> [n \in {"S1", "S2", "S3"} |->
                IF n = "S1" THEN Pt(200, 300)
                ELSE IF n = "S2" THEN Pt(600, 300) ELSE Pt(960, 300)],
     conns |-> << [src |-> "S1", dst |-> "S2"], [src |-> "S2", dst |-> "S3"] >>]

\* The canvas the constructor renders from the model it is given.
DomInit ==
    /\ model = InitialModel
    /\ nodes = [n \in DOMAIN InitialModel.pos |->
                  NodeEl(InitialModel.pos[n].x, InitialModel.pos[n].y)]
    /\ nodeOrder = <<"S1", "S2", "S3">>
    /\ edges = [i \in 1..Len(InitialModel.conns) |->
                  EdgeEl(InitialModel.conns[i].src, InitialModel.conns[i].dst)]
    /\ wfCls = {}

(***************************************************************************)
(* Boundary auto-scroll.                                                   *)
(***************************************************************************)
DbiDefault ==
    [x |-> FALSE, y |-> FALSE, interval |-> 0, xOffset |-> RZero, yOffset |-> RZero,
     highlightedPort |-> NoPort]

\* The -1 / 0 / 1 classification getBoundaryZonesXYAxes returns.
BoundaryZones(px, py, rect, band) ==
    [x |-> IF RLt(px, RAdd(R(rect.left), band)) THEN -1
           ELSE IF RLt(RSub(R(rect.right), band), px) THEN 1 ELSE 0,
     y |-> IF RLt(py, RAdd(R(rect.top), band)) THEN -1
           ELSE IF RLt(RSub(R(rect.bottom), band), py) THEN 1 ELSE 0]

ClearInterval(ts, handle) == {t \in ts : t.id # handle}

\* An interior check that resets the registered axes and forgets the
\* interval without clearing it.
ClearIfInteriorKeepTimer(S, B) ==
    IF B.x = 0 /\ B.y = 0 /\ S.dbi.interval # 0
    THEN [dbi |-> [S.dbi EXCEPT !.x = FALSE, !.y = FALSE, !.interval = 0,
                                !.highlightedPort = NoPort],
          timers |-> S.timers]
    ELSE S

\* The side effect of getBoundaryZonesXYAxes: a pointer in the interior on
\* both axes clears a running interval.  S is [dbi, timers].
ClearIfInterior(S, B) ==
    IF B.x = 0 /\ B.y = 0 /\ S.dbi.interval # 0
    THEN [dbi |-> [S.dbi EXCEPT !.x = FALSE, !.y = FALSE, !.interval = 0,
                                !.highlightedPort = NoPort],
          timers |-> ClearInterval(S.timers, S.dbi.interval)]
    ELSE S

\* The while loop that halves dragBoundary.
RECURSIVE AdjustBoundary(_, _)
AdjustBoundary(rect, band) ==
    IF \/ RLe(RSub(R(rect.right), band), RAdd(R(rect.left), band))
       \/ RLe(R(rect.right), RAdd(R(rect.left), RMul(R(4), band)))
    THEN AdjustBoundary(rect, RDiv(band, R(2)))
    ELSE band

\* The condition under which a new interval replaces the registered one.
NeedsNewInterval(d, B) ==
    \/ ~d.x /\ B.x # 0
    \/ ~d.y /\ B.y # 0
    \/ d.x /\ d.y /\ ~(B.x # 0 /\ B.y # 0)

\* setInterval hands out a handle no live timer has.
FreshTimerId(ts) == CHOOSE i \in 1..(Cardinality(ts) + 1) : \A t \in ts : t.id # i

\* A start that leaves the stored interval running.
StartIntervalKeepOld(S, B, closure, setHp, hp) ==
    LET id == FreshTimerId(S.timers)
    IN  [dbi |-> [S.dbi EXCEPT !.x = (B.x # 0), !.y = (B.y # 0), !.interval = id,
                               !.highlightedPort = IF setHp THEN hp ELSE @],
         timers |-> S.timers \cup {[closure EXCEPT !.id = id, !.dirX = B.x, !.dirY = B.y]}]

\* The body of setDragBoundaryIntervalIfNecessary once a new interval is
\* due: register the axes, clear the stored interval, start the new one.
StartInterval(S, B, closure, setHp, hp) ==
    LET live == ClearInterval(S.timers, S.dbi.interval)
        id == FreshTimerId(live)
    IN  [dbi |-> [S.dbi EXCEPT !.x = (B.x # 0), !.y = (B.y # 0), !.interval = id,
                               !.highlightedPort = IF setHp THEN hp ELSE @],
         timers |-> live \cup {[closure EXCEPT !.id = id, !.dirX = B.x, !.dirY = B.y]}]

\* setDragBoundaryIntervalIfNecessary, called with a nonzero boundary.
SetIntervalIfNecessary(S, B, closure, setHp, hp) ==
    IF (B.x # 0 \/ B.y # 0) /\ NeedsNewInterval(S.dbi, B)
    THEN StartInterval(S, B, closure, setHp, hp)
    ELSE S

ToDefaultKeepTimer(S) ==
    [dbi |-> [S.dbi EXCEPT !.x = FALSE, !.y = FALSE, !.interval = 0,
                           !.highlightedPort = NoPort,
                           !.xOffset = RZero, !.yOffset = RZero],
     timers |-> S.timers]

\* setDragBoundaryIntervalToDefault()
ToDefault(S) ==
    LET S1 == IF S.dbi.interval # 0
              THEN [dbi |-> [S.dbi EXCEPT !.x = FALSE, !.y = FALSE, !.interval = 0,
                                          !.highlightedPort = NoPort],
                    timers |-> ClearInterval(S.timers, S.dbi.interval)]
              ELSE S
    IN  [S1 EXCEPT !.dbi.xOffset = RZero, !.dbi.yOffset = RZero]

ScaledDeltaNoOffset(B, m, sc, rect, band, d, start, dp) ==
    [x |-> IF B.x # 0
           THEN RSub(TranslateMouseCoords(m,
                        IF B.x = 1 THEN RSub(R(rect.right), band)
                        ELSE RAdd(R(rect.left), band), RZero).x, start.x)
           ELSE AdaptToScale(dp.x, sc),
     y |-> IF B.y # 0
           THEN RSub(TranslateMouseCoords(m, RZero,
                        IF B.y = 1 THEN RSub(R(rect.bottom), band)
                        ELSE RAdd(R(rect.top), band)).y, start.y)
           ELSE AdaptToScale(dp.y, sc)]

\* getScaledDeltaXYForDrag: on an axis in a boundary the delta runs to the
\* band's edge, elsewhere it is the scaled pointer delta plus the offset.
ScaledDelta(B, m, sc, rect, band, d, start, dp) ==
    [x |-> IF B.x # 0
           THEN RSub(TranslateMouseCoords(m,
                        IF B.x = 1 THEN RSub(R(rect.right), band)
                        ELSE RAdd(R(rect.left), band), RZero).x, start.x)
           ELSE RAdd(AdaptToScale(dp.x, sc), d.xOffset),
     y |-> IF B.y # 0
           THEN RSub(TranslateMouseCoords(m, RZero,
                        IF B.y = 1 THEN RSub(R(rect.bottom), band)
                        ELSE RAdd(R(rect.top), band)).y, start.y)
           ELSE RAdd(AdaptToScale(dp.y, sc), d.yOffset)]

TimerClosure(kind, el, n2m) ==
    [id |-> 0, dirX |-> 0, dirY |-> 0, kind |-> kind, el |-> el, n2m |-> n2m]

ScrollInit ==
    /\ dragBoundary = R(InitialDragBoundary)
    /\ dbi = DbiDefault
    /\ timers = {}
    /\ wbcr = [left |-> 0, top |-> 0, right |-> 0, bottom |-> 0]

(***************************************************************************)
(* Inputs: where the pointer can be, what the wheel reports, how many      *)
(* events a behaviour handles.                                             *)
(***************************************************************************)
\* Pointer positions (clientX, clientY): in the interior near a connected
\* port, near a free port, far from everything, close to the origin node;
\* in the right band, beyond the right edge, in the bottom-right corner
\* bands, in the left band.
Points ==
    { <<560, 310>>, <<900, 300>>, <<400, 500>>, <<260, 330>>,
      <<980, 300>>, <<1100, 300>>, <<980, 580>>, <<20, 300>> }

WheelDeltas == {-250, 250}
WheelPoints == { <<500, 300>> }
PanDown == <<500, 300>>
PanPoints == { <<560, 310>>, <<20, 300>> }
DraggableNodes == {"S1"}

\* Factors a caller asks scaleWorkflow for, and the client points it anchors at.
ScaleRequests == { Frac(1, 2), R(2) }
ScaleAnchors == { <<0, 0>>, <<900, 300>> }

\* Measured [width, height] of the svg when it is fitted.
FitViewports == { <<0, 600>>, <<100, 100>>, <<2000, 2000>>, <<282, 2000>> }

\* The radius of a node's circle.
NodeRadius == 30

NewStepIds == {"S4"}
StepCoords == { Undef, R(400) }

MaxEvents == 5

Handled == budget < MaxEvents /\ budget' = budget + 1

SessionNone == [kind |-> "none", down |-> Pt(0, 0), last |-> Pt(0, 0)]

PdNone ==
    [origin |-> NoPort, ports |-> <<>>, hp |-> NoPort, dir |-> "",
     ghost |-> [present |-> FALSE, hidden |-> FALSE, x |-> RZero, y |-> RZero],
     originNode |-> Pt(0, 0), edge |-> FALSE]

DragInit ==
    /\ isDragging = FALSE
    /\ session = SessionNone
    /\ nd = [el |-> "", startX |-> Undef, startY |-> Undef, newX |-> Undef, newY |-> Undef]
    /\ pan = [x |-> Undef, y |-> Undef]
    /\ pd = PdNone

RelNone ==
    [at |-> -1, kind |-> "none", live |-> FALSE, inBand |-> FALSE,
     hp |-> NoPort, marked |-> FALSE, ghostHidden |-> FALSE,
     origin |-> NoPort, near |-> NoPort, nearJoined |-> FALSE, far |-> FALSE,
     nearPointer |-> NoPort, farPointer |-> FALSE,
     joined |-> FALSE, nodes0 |-> {}, edges0 |-> 0, model0 |-> InitialModel]

\* The markers of selection and highlight on the canvas D.
Marks(D) ==
    [nodes |-> {n \in DOMAIN D.nodes : "highlighted" \in D.nodes[n].cls},
     pins |-> {n \in DOMAIN D.nodes : "highlighted" \in D.nodes[n].pin},
     pouts |-> {n \in DOMAIN D.nodes : "highlighted" \in D.nodes[n].pout},
     edges |-> {i \in 1..Len(D.edges) : "highlighted" \in D.edges[i].cls},
     selected |-> SelectedEls(D),
     hasSelection |-> "has-selection" \in D.wf]

\* ticks: the scaled steps the scroll ticks of the session add up to; b: the
\* boundary zones of the latest move; moved: a move was handled; hadTimer: a
\* timer has run; rel: what the latest release found; clicked: the clicks
\* on nodes and edges so far; marks0: the markers on the canvas when the
\* session began.
ObsInit ==
    [ticks |-> [x |-> RZero, y |-> RZero], b |-> [x |-> 0, y |-> 0],
     moved |-> FALSE, hadTimer |-> FALSE, rel |-> RelNone, clicked |-> 0,
     marks0 |-> Marks(Dom), destroyed |-> FALSE,
     nticks |-> [x |-> 0, y |-> 0], resolved |-> NoPort]

UiInit ==
    /\ ViewInit
    /\ DomInit
    /\ ScrollInit
    /\ DragInit
    /\ effects = <<>>
    /\ budget = 0
    /\ obs = ObsInit

Scroll == [dbi |-> dbi, timers |-> timers]

SetScroll(S) == dbi' = S.dbi /\ timers' = S.timers

(***************************************************************************)
(* The mousewheel listener and the public scale operations.                *)
(***************************************************************************)
\* The "mousewheel" listener of the constructor.
Wheel ==
    \E delta \in WheelDeltas, p \in WheelPoints :
        LET s == RAdd(scale, Frac(delta, WheelDivisor))
        IN  /\ Handled
            /\ effects' = <<>>
            /\ IF isDragging \/ WheelRejects(s)
               THEN /\ zoomObs' = [ZoomNone(zoomObs.external) EXCEPT
                                      !.op = "wheel", !.rejected = TRUE]
                    /\ UNCHANGED <<scale, fitListeners, matrix>>
               ELSE /\ scale' = s
                    /\ fitListeners' = fitListeners + 1
                    /\ matrix' = ScaleMatrix(matrix, s, R(p[1]), R(p[2]))
                    /\ zoomObs' = ZoomScaled("wheel", TRUE, R(p[1]), R(p[2]), s,
                                             zoomObs.external)
            /\ UNCHANGED <<domVars, model, scrollVars, dragVars, obs, arrVars>>

\* scaleWorkflow(scaleCoefficient, ev), called from outside; without ev the
\* anchor is the client point (0, 0).
\* The events some listener is registered for: attachEvents registers five,
\* scaleWorkflow registers workflow.fit whenever it runs (the constructor's
\* renderModel runs it).  No listener is registered for workflow.scale or
\* beforeChange.
HubListeners ==
    {"app.create.input", "app.create.output", "app.create.step",
     "connection.create", "workflow.arrange", "workflow.fit"}

\* command("workflow.scale", f): the event hub calls the listeners of the
\* event with f.
CommandScale ==
    \E f \in ScaleRequests :
        /\ Handled
        /\ IF "workflow.scale" \in HubListeners
           THEN /\ scale' = f
                /\ fitListeners' = fitListeners + 1
                /\ matrix' = ScaleMatrix(matrix, f, RZero, RZero)
           ELSE UNCHANGED <<scale, fitListeners, matrix>>
        /\ zoomObs' = [ZoomNone(zoomObs.external) EXCEPT
                          !.op = "command.scale", !.factor = f]
        /\ effects' = <<>>
        /\ UNCHANGED <<domVars, model, scrollVars, dragVars, obs, arrVars>>

ScaleWorkflowCall ==
    \E f \in ScaleRequests, p \in ScaleAnchors :
        /\ Handled
        /\ scale' = f
        /\ fitListeners' = fitListeners + 1
        /\ matrix' = ScaleMatrix(matrix, f, R(p[1]), R(p[2]))
        /\ zoomObs' = ZoomScaled("scale", TRUE, R(p[1]), R(p[2]), f, TRUE)
        /\ effects' = <<>>
        /\ UNCHANGED <<domVars, model, scrollVars, dragVars, obs, arrVars>>

\* workflow.getBoundingClientRect() under matrix m: the box around the
\* rendered nodes, each NodeRadius wide around its position.
RECURSIVE RMinOf(_)
RMinOf(S) ==
    LET v == CHOOSE x \in S : TRUE
    IN  IF S = {v} THEN v ELSE RMin(v, RMinOf(S \ {v}))

RECURSIVE RMaxOf(_)
RMaxOf(S) ==
    LET v == CHOOSE x \in S : TRUE
    IN  IF S = {v} THEN v ELSE RMax(v, RMaxOf(S \ {v}))

WfBounds(ns, m) ==
    IF DOMAIN ns = {}
    THEN [left |-> RZero, top |-> RZero, width |-> RZero, height |-> RZero]
    ELSE LET xs == UNION {{RAdd(m.e, RMul(m.a, RSub(ns[n].x, R(NodeRadius)))),
                           RAdd(m.e, RMul(m.a, RAdd(ns[n].x, R(NodeRadius))))} :
                          n \in DOMAIN ns}
             ys == UNION {{RAdd(m.f, RMul(m.a, RSub(ns[n].y, R(NodeRadius)))),
                           RAdd(m.f, RMul(m.a, RAdd(ns[n].y, R(NodeRadius))))} :
                          n \in DOMAIN ns}
         IN  [left |-> RMinOf(xs), top |-> RMinOf(ys),
              width |-> RSub(RMaxOf(xs), RMinOf(xs)),
              height |-> RSub(RMaxOf(ys), RMinOf(ys))]

\* A fit that refuses only a viewport without height.
FitUnavailableHeightOnly(vp) == vp[2] = 0

\* if (clientBounds.width === 0 || clientBounds.height === 0) throw ...
FitUnavailable(vp) == vp[1] = 0 \/ vp[2] = 0

\* A fit without the cap.
FitScaleUncapped(sc, scaleFactor) == RDiv(sc, scaleFactor)

\* Math.min(this.scale / scaleFactor, 1); a scaleFactor of 0 divides to
\* Infinity, which the minimum turns into 1.
FitScale(sc, scaleFactor) ==
    IF scaleFactor = RZero THEN ROne ELSE RMin(RDiv(sc, scaleFactor), ROne)

\* fitToViewport(), with vp the svg's measured [width, height] (its left and
\* top are 0).
FitToViewportCall ==
    \E vp \in FitViewports :
        LET m1 == [ScaleMatrix(matrix, ROne, RZero, RZero) EXCEPT !.e = RZero, !.f = RZero]
            wf == WfBounds(nodes, m1)
            verticalScale == RDiv(wf.height, R(vp[2] - FitPadding))
            horizontalScale == RDiv(wf.width, R(vp[1] - FitPadding))
            scaleFactor == RMax(verticalScale, horizontalScale)
            newScale == FitScale(ROne, scaleFactor)
            m2 == ScaleMatrix(m1, newScale, RZero, RZero)
            swf == WfBounds(nodes, m2)
            moveY == RMul(newScale, RAdd(RNeg(swf.top),
                        RDiv(RAbs(RSub(R(vp[2]), swf.height)), R(2))))
            moveX == RMul(newScale, RAdd(RNeg(swf.left),
                        RDiv(RAbs(RSub(R(vp[1]), swf.width)), R(2))))
        IN  /\ Handled
            /\ effects' = <<>>
            /\ IF FitUnavailable(vp)
               THEN /\ scale' = ROne
                    /\ fitListeners' = fitListeners + 1
                    /\ matrix' = m1
                    /\ zoomObs' = [ZoomNone(TRUE) EXCEPT !.op = "fit", !.rejected = TRUE,
                                      !.p = Pt(vp[1], vp[2])]
               ELSE /\ scale' = newScale
                    /\ fitListeners' = fitListeners + 2
                    /\ matrix' = [m2 EXCEPT !.e = moveX, !.f = moveY]
                    /\ zoomObs' = [ZoomNone(TRUE) EXCEPT !.op = "fit", !.factor = newScale,
                                      !.p = Pt(vp[1], vp[2])]
            /\ UNCHANGED <<domVars, model, scrollVars, dragVars, obs, arrVars>>

\* The "app.create.step" listener: the step is drawn where its model says,
\* or at Math.random() * 1000, and the canvas is scaled again.
\* Measured [clientWidth, clientHeight] of the svg when workflow.fit is commanded.
FitPapers == { <<1000, 600>>, <<2000, 2000>> }

\* One run of the workflow.fit listener on a paper of size vp: the group's
\* transform is reset, the factor is computed from the measured bounds and
\* handed to command("workflow.scale"), which no listener receives, and the
\* group is translated.  this.scale is not touched.
FitRoutine(vp) ==
    LET m1 == [a |-> ROne, e |-> RZero, f |-> RZero]
        wf == WfBounds(nodes, m1)
        verticalScale == RDiv(RAdd(wf.height, R(FitPadding)), R(vp[2]))
        horizontalScale == RDiv(RAdd(wf.width, R(FitPadding)), R(vp[1]))
        scaleFactor == RMax(verticalScale, horizontalScale)
        moveY == RAdd(RAdd(RMul(scaleFactor, RNeg(wf.top)),
                           RMul(scaleFactor, R(SvgRect.top))),
                      RDiv(RMul(scaleFactor, RAbs(RSub(R(vp[2]), wf.height))), R(2)))
        moveX == RAdd(RAdd(RMul(scaleFactor, RNeg(wf.left)),
                           RMul(scaleFactor, R(SvgRect.left))),
                      RDiv(RMul(scaleFactor, RAbs(RSub(R(vp[1]), wf.width))), R(2)))
    IN  [a |-> ROne, e |-> moveX, f |-> moveY]

\* command("workflow.fit"): the event hub calls every listener registered
\* for the event, one after the other; each run starts from the reset
\* transform, so the last run decides the matrix.
CommandFit ==
    \E vp \in FitPapers :
        /\ Handled
        /\ matrix' = IF fitListeners > 0 THEN FitRoutine(vp) ELSE matrix
        /\ effects' = [i \in 1..fitListeners |-> "workflow.fit"]
        /\ zoomObs' = [ZoomNone(zoomObs.external) EXCEPT
                          !.op = "command.fit", !.p = Pt(vp[1], vp[2])]
        /\ UNCHANGED <<scale, fitListeners, domVars, model, scrollVars, dragVars, obs,
                       arrVars>>

CreateStep ==
    \E n \in NewStepIds, x \in StepCoords, y \in StepCoords,
       rx \in RandomCoords, ry \in RandomCoords :
        /\ n \notin DOMAIN nodes
        /\ session.kind = "none"
        /\ Handled
        /\ nodes' = [m \in DOMAIN nodes \cup {n} |->
                       IF m = n
                       THEN NodeEl(IF x = RZero \/ x = Undef THEN RMul(R(2), rx) ELSE x,
                                   IF y = RZero \/ y = Undef THEN RMul(R(2), ry) ELSE y)
                       ELSE nodes[m]]
        /\ nodeOrder' = Append(nodeOrder, n)
        /\ scale' = scale
        /\ fitListeners' = fitListeners + 1
        /\ matrix' = ScaleMatrix(matrix, scale, RZero, RZero)
        /\ zoomObs' = ZoomScaled("scale", TRUE, RZero, RZero, scale, zoomObs.external)
        /\ effects' = <<>>
        /\ UNCHANGED <<edges, wfCls, model, scrollVars, dragVars, obs, arrVars>>

\* redraw(): renderModel(this.model), which ends in scaleWorkflow(this.scale).
Redraw ==
    \E rx \in RandomCoords, ry \in RandomCoords :
        /\ session.kind = "none"
        /\ Handled
        /\ SetDom(RenderModel(Dom, model, rx, ry))
        /\ scale' = scale
        /\ fitListeners' = fitListeners + 1
        /\ matrix' = ScaleMatrix(matrix, scale, RZero, RZero)
        /\ zoomObs' = ZoomScaled("scale", TRUE, RZero, RZero, scale, zoomObs.external)
        /\ effects' = <<>>
        /\ UNCHANGED <<model, scrollVars, dragVars, obs, arrVars>>

(***************************************************************************)
(* Selection: clicks and the delete key.                                   *)
(***************************************************************************)
\* The click listeners run in the order addEventListeners registered them:
\* "*" (everything), then ".node", then ".edge".
DispatchClick(D, el) ==
    LET D1 == DeselectEverything(D)
    IN  IF el.t = "node" THEN ActivateSelection(D1, el)
        ELSE IF el.t = "edge"
        THEN [HighlightEdge(D1, el.idx) EXCEPT !.edges[el.idx].cls = @ \cup {"selected"}]
        ELSE D1

ClickBlank ==
    /\ session.kind = "none"
    /\ Handled
    /\ SetDom(DispatchClick(Dom, [t |-> "none", id |-> "", idx |-> 0]))
    /\ effects' = <<>>
    /\ UNCHANGED <<viewVars, model, scrollVars, dragVars, obs, arrVars>>

ClickNode ==
    \E n \in DOMAIN nodes :
        /\ session.kind = "none"
        /\ Handled
        /\ SetDom(DispatchClick(Dom, NodeRef(n)))
        /\ effects' = <<>>
        /\ obs' = [obs EXCEPT !.clicked = @ + 1]
        /\ UNCHANGED <<viewVars, model, scrollVars, dragVars, arrVars>>

ClickEdge ==
    \E i \in 1..Len(edges) :
        /\ session.kind = "none"
        /\ Handled
        /\ SetDom(DispatchClick(Dom, EdgeRef(i)))
        /\ effects' = <<>>
        /\ obs' = [obs EXCEPT !.clicked = @ + 1]
        /\ UNCHANGED <<viewVars, model, scrollVars, dragVars, arrVars>>

\* model.removeStep / removeInput / removeOutput(id)
RemoveNode(mdl, n) ==
    [pos |-> [m \in DOMAIN mdl.pos \ {n} |-> mdl.pos[m]],
     conns |-> SelectSeq(mdl.conns, LAMBDA c : c.src # n /\ c.dst # n)]

\* model.disconnect(sourceId, destinationId)
Disconnect(mdl, src, dst) ==
    [mdl EXCEPT !.conns = SelectSeq(@, LAMBDA c : ~(c.src = src /\ c.dst = dst))]

\* A deletion loop that leaves the canvas as it was drawn.
RECURSIVE DeleteSelectionSkipRender(_, _, _, _)
DeleteSelectionSkipRender(sel, st, rx, ry) ==
    IF sel = <<>> THEN st
    ELSE LET el == Head(sel)
             m1 == IF el.t = "edge" THEN Disconnect(st.model, el.src, el.dst)
                   ELSE RemoveNode(st.model, el.id)
             op == IF el.t = "edge" THEN "model.disconnect"
                   ELSE IF NodeKind[el.id] = "step" THEN "model.removeStep"
                   ELSE IF NodeKind[el.id] = "input" THEN "model.removeInput"
                   ELSE "model.removeOutput"
         IN  DeleteSelectionSkipRender(Tail(sel),
                 [dom |-> st.dom, model |-> m1,
                  effects |-> st.effects \o <<op>>], rx, ry)

\* The selection.forEach of the keyup listener: st is [dom, model, effects],
\* sel the selected elements as they were when the key came up.
RECURSIVE DeleteSelection(_, _, _, _)
DeleteSelection(sel, st, rx, ry) ==
    IF sel = <<>> THEN st
    ELSE LET el == Head(sel)
             m1 == IF el.t = "edge" THEN Disconnect(st.model, el.src, el.dst)
                   ELSE RemoveNode(st.model, el.id)
             op == IF el.t = "edge" THEN "model.disconnect"
                   ELSE IF NodeKind[el.id] = "step" THEN "model.removeStep"
                   ELSE IF NodeKind[el.id] = "input" THEN "model.removeInput"
                   ELSE "model.removeOutput"
         IN  DeleteSelection(Tail(sel),
                 [dom |-> RenderModel(st.dom, m1, rx, ry), model |-> m1,
                  effects |-> st.effects \o <<op, "renderModel">>], rx, ry)

\* The keyup listener, for the delete key on the canvas.
DeleteKey ==
    \E rx \in RandomCoords, ry \in RandomCoords :
        LET refs == SelectedEls(Dom)
            sel == [i \in 1..Len(refs) |->
                      IF refs[i].t = "edge"
                      THEN [t |-> "edge", id |-> "", src |-> edges[refs[i].idx].src,
                            dst |-> edges[refs[i].idx].dst]
                      ELSE [t |-> "node", id |-> refs[i].id, src |-> "", dst |-> ""]]
            st == DeleteSelection(sel,
                      [dom |-> Dom, model |-> model,
                       effects |-> <<"beforeChange:deletion">>], rx, ry)
        IN  /\ session.kind = "none"
            /\ Handled
            /\ IF sel = <<>>
               THEN /\ effects' = <<>>
                    /\ UNCHANGED <<domVars, model, viewVars>>
               ELSE /\ SetDom(st.dom)
                    /\ model' = st.model
                    /\ effects' = st.effects
                    /\ scale' = scale
                    /\ fitListeners' = fitListeners + 1
                    /\ matrix' = ScaleMatrix(matrix, scale, RZero, RZero)
                    /\ zoomObs' = ZoomScaled("scale", TRUE, RZero, RZero, scale,
                                             zoomObs.external)
            /\ UNCHANGED <<scrollVars, dragVars, obs, arrVars>>

(***************************************************************************)
(* Node move.                                                              *)
(***************************************************************************)
\* Pointer-down on a node's drag handle: the start callback, when
\* svgRoot.getBoundingClientRect() measures rect.
NodeDragStartOn(rect) ==
    \E n \in DraggableNodes \cap DOMAIN nodes :
        /\ session.kind = "none"
        /\ Handled
        /\ isDragging' = TRUE
        /\ nd' = [nd EXCEPT !.el = n, !.startX = nodes[n].x, !.startY = nodes[n].y]
        /\ wbcr' = rect
        /\ session' = [kind |-> "node", down |-> ToScreen(matrix, nodes[n]),
                       last |-> ToScreen(matrix, nodes[n])]
        /\ effects' = <<>>
        /\ zoomObs' = ZoomNone(zoomObs.external)
        /\ obs' = [ObsInit EXCEPT !.rel = obs.rel, !.clicked = obs.clicked]
        /\ UNCHANGED <<scale, fitListeners, matrix, domVars, model, dragBoundary, dbi, timers,
                       pan, pd, arrVars>>

\* The start callback on the canvas of the standard size.
NodeDragStart == NodeDragStartOn(SvgRect)

\* Sizes the svg can have when a drag starts: the standard one, a low one, a
\* narrow one, a small square one and a very low one.
CanvasRects ==
    { SvgRect,
      [left |-> 0, top |-> 0, right |-> 1000, bottom |-> 80],
      [left |-> 0, top |-> 0, right |-> 160, bottom |-> 600],
      [left |-> 0, top |-> 0, right |-> 90, bottom |-> 90],
      [left |-> 0, top |-> 0, right |-> 1000, bottom |-> 20] }

\* The start callback after the host has given the svg another size.
NodeDragStartResized == \E rect \in CanvasRects : NodeDragStartOn(rect)

\* The move callback of the node drag.
NodeDragMove ==
    \E p \in Points :
        LET px == R(p[1])
            py == R(p[2])
            dp == [x |-> RSub(px, session.down.x), y |-> RSub(py, session.down.y)]
            B == BoundaryZones(px, py, wbcr, dragBoundary)
            S1 == ClearIfInterior(Scroll, B)
            band == IF B.x # 0 \/ B.y # 0 THEN AdjustBoundary(wbcr, dragBoundary)
                    ELSE dragBoundary
            S2 == SetIntervalIfNecessary(S1, B, TimerClosure("node", nd.el, RZero),
                                         FALSE, NoPort)
            sd == ScaledDelta(B, matrix, scale, wbcr, band, S2.dbi,
                              [x |-> nd.startX, y |-> nd.startY], dp)
            newX == RAdd(nd.startX, sd.x)
            newY == RAdd(nd.startY, sd.y)
        IN  /\ session.kind = "node"
            /\ Handled
            /\ dragBoundary' = band
            /\ SetScroll(S2)
            /\ nd' = [nd EXCEPT !.newX = newX, !.newY = newY]
            /\ nodes' = IF nd.el \in DOMAIN nodes
                        THEN [nodes EXCEPT ![nd.el].x = newX, ![nd.el].y = newY]
                        ELSE nodes
            /\ session' = [session EXCEPT !.last = [x |-> px, y |-> py]]
            /\ effects' = <<>>
            /\ zoomObs' = ZoomNone(zoomObs.external)
            /\ obs' = [obs EXCEPT !.b = B, !.moved = TRUE,
                                  !.hadTimer = @ \/ S2.timers # {}]
            /\ UNCHANGED <<scale, fitListeners, matrix, nodeOrder, edges, wfCls, model, wbcr,
                           isDragging, pan, pd, arrVars>>

\* What a release finds: whether a timer is live and where the pointer is.
ReleaseOf(kind) ==
    LET B == BoundaryZones(session.last.x, session.last.y, wbcr, dragBoundary)
    IN  [RelNone EXCEPT !.at = budget + 1, !.kind = kind, !.live = (timers # {}),
                        !.inBand = (B.x # 0 \/ B.y # 0),
                        !.nodes0 = DOMAIN nodes, !.edges0 = Len(edges),
                        !.model0 = model]

\* A position write that notifies only after it has written.
SetModelPositionWriteFirst == <<"model.position", "beforeChange:move">>

\* What setModelPosition emits and calls, in order: the notification, then
\* the write into customProps.
SetModelPositionCalls == <<"beforeChange:move", "model.position">>

\* setModelPosition(obj, x, y)
SetModelPosition(mdl, n, x, y) == [mdl EXCEPT !.pos[n] = [x |-> x, y |-> y]]

\* The end callback of the node drag.
NodeDragEnd ==
    /\ session.kind = "node"
    /\ Handled
    /\ isDragging' = FALSE
    /\ SetScroll(ToDefault(Scroll))
    /\ IF nd.el \in DOMAIN model.pos
       THEN /\ model' = SetModelPosition(model, nd.el, nd.newX, nd.newY)
            /\ effects' = SetModelPositionCalls
       ELSE /\ UNCHANGED model
            /\ effects' = <<>>
    /\ session' = SessionNone
    /\ zoomObs' = ZoomNone(zoomObs.external)
    /\ obs' = [obs EXCEPT !.rel = ReleaseOf("node")]
    /\ UNCHANGED <<scale, fitListeners, matrix, domVars, dragBoundary, wbcr, nd, pan, pd, arrVars>>

(***************************************************************************)
(* Canvas pan.                                                             *)
(***************************************************************************)
PanStart ==
    /\ session.kind = "none"
    /\ Handled
    /\ pan' = [x |-> matrix.e, y |-> matrix.f]
    /\ session' = [kind |-> "pan", down |-> Pt(PanDown[1], PanDown[2]),
                   last |-> Pt(PanDown[1], PanDown[2])]
    /\ effects' = <<>>
    /\ zoomObs' = ZoomNone(zoomObs.external)
    /\ UNCHANGED <<scale, fitListeners, matrix, domVars, model, scrollVars, isDragging, nd, pd, obs,
                   arrVars>>

PanMove ==
    \E p \in PanPoints :
        /\ session.kind = "pan"
        /\ Handled
        /\ matrix' = [matrix EXCEPT !.e = RAdd(pan.x, RSub(R(p[1]), session.down.x)),
                                    !.f = RAdd(pan.y, RSub(R(p[2]), session.down.y))]
        /\ session' = [session EXCEPT !.last = Pt(p[1], p[2])]
        /\ effects' = <<>>
        /\ zoomObs' = ZoomNone(zoomObs.external)
        /\ UNCHANGED <<scale, fitListeners, domVars, model, scrollVars, isDragging, nd, pan, pd, obs,
                       arrVars>>

PanEnd ==
    /\ session.kind = "pan"
    /\ Handled
    /\ session' = SessionNone
    /\ effects' = <<>>
    /\ zoomObs' = ZoomNone(zoomObs.external)
    /\ UNCHANGED <<scale, fitListeners, matrix, domVars, model, scrollVars, isDragging, nd, pan, pd,
                   obs, arrVars>>

(***************************************************************************)
(* Port drag: drawing a connection.                                        *)
(***************************************************************************)
PortOrigins == { Port("out", "S1"), Port("in", "S3") }

Opposite(role) == IF role = "in" THEN "out" ELSE "in"

\* "left" when dragging from an input port, "right" from an output port.
EdgeDirection(origin) == IF origin.role = "in" THEN "left" ELSE "right"

\* Geometry.distance, squared.
Dist2(ax, ay, bx, by) ==
    RAdd(RMul(RSub(ax, bx), RSub(ax, bx)), RMul(RSub(ay, by), RSub(ay, by)))

Within(d2, r) == RLt(d2, R(r * r))
Beyond(d2, r) == RLt(R(r * r), d2)

AddPortCls(D, p, S) ==
    IF p.role = "in" THEN [D EXCEPT !.nodes[p.node].pin = @ \cup S]
    ELSE [D EXCEPT !.nodes[p.node].pout = @ \cup S]

DropPortCls(D, p, S) ==
    IF p.role = "in" THEN [D EXCEPT !.nodes[p.node].pin = @ \ S]
    ELSE [D EXCEPT !.nodes[p.node].pout = @ \ S]

PortCls(D, p) == IF p.role = "in" THEN D.nodes[p.node].pin ELSE D.nodes[p.node].pout

\* workflow.appendChild(node): the node becomes the last child.
AppendChild(D, n) ==
    [D EXCEPT !.order = SelectSeq(@, LAMBDA m : m # n) \o <<n>>]

\* All ports of the opposite role on other nodes, in document order, each
\* with its canvas position (wfCTM) taken now.
AllConnectionPorts(D, origin) ==
    LET cand == SelectSeq(D.order,
                    LAMBDA n : n # origin.node /\ HasPort(n, Opposite(origin.role)))
    IN  [i \in 1..Len(cand) |->
            LET q == Port(Opposite(origin.role), cand[i])
            IN  [port |-> q, x |-> PortPos(D.nodes, q).x, y |-> PortPos(D.nodes, q).y]]

\* model.gatherValidConnectionPoints(id), restricted to the visible ones:
\* the answers the data model may give, every port of the opposite role or
\* none of them.
GatherValidConnectionPoints(D, origin) ==
    { {AllConnectionPorts(D, origin)[i].port :
          i \in 1..Len(AllConnectionPorts(D, origin))},
      {} }

\* getSortedConnectionPorts(ports, coords)[0]: the first port at the least
\* distance (the sort is stable); 0 when there is no port.
Nearest(ports, c) ==
    IF ports = <<>> THEN 0
    ELSE CHOOSE i \in 1..Len(ports) :
            /\ \A j \in 1..Len(ports) :
                  RLe(Dist2(c.x, c.y, ports[i].x, ports[i].y),
                      Dist2(c.x, c.y, ports[j].x, ports[j].y))
            /\ \A j \in 1..(i - 1) :
                  RLt(Dist2(c.x, c.y, ports[i].x, ports[i].y),
                      Dist2(c.x, c.y, ports[j].x, ports[j].y))

\* removeHighlightedPort(highlightedPort, edgeDirection)
RemoveHighlightedPort(D, hp, dir) ==
    IF hp = NoPort \/ hp.node \notin DOMAIN D.nodes THEN D
    ELSE [DropPortCls(D, hp, {"highlighted", "preferred-port"})
             EXCEPT !.nodes[hp.node].cls = @ \ {"preferred-node", dir}]

\* highlightPortOrShowGhostNode(ghost, sorted, nodeToMouseDistance, dir,
\* newCoords); c is the point the ports were sorted by, n2m the squared
\* node-to-mouse distance.  Yields the canvas, the ghost and the port returned.
HighlightPortOrShowGhostNode(D, ghost, ports, c, n2m, dir, newCoords) ==
    LET i == Nearest(ports, c)
        hit == i # 0 /\ Within(Dist2(c.x, c.y, ports[i].x, ports[i].y), SnapRadius)
        hp == IF hit THEN ports[i].port ELSE NoPort
        D1 == IF hit /\ hp.node \in DOMAIN D.nodes
              THEN [AppendChild(AddPortCls(D, hp, {"highlighted", "preferred-port"}), hp.node)
                       EXCEPT !.nodes[hp.node].cls =
                                  @ \cup {"highlighted", "preferred-node", dir}]
              ELSE D
    IN  [dom |-> D1,
         ghost |-> [ghost EXCEPT
                       !.hidden = ~(~hit /\ Beyond(n2m, GhostThreshold)),
                       !.x = newCoords.x, !.y = newCoords.y],
         hp |-> hp]

\* GraphEdge.findEdge(workflow, sourceID, destinationID)
FindEdge(D, src, dst) ==
    \E i \in 1..Len(D.edges) : D.edges[i].src = src /\ D.edges[i].dst = dst

ShouldConnectAlways(D, src, dst) == TRUE

\* if (!GraphEdge.findEdge(this.workflow, sourceID, destinationID))
ShouldConnect(D, src, dst) == ~FindEdge(D, src, dst)

\* The ids after the swap that puts the "in..." id second.
SourceOf(origin, hp) == IF origin.role = "in" THEN hp.node ELSE origin.node
DestinationOf(origin, hp) == IF origin.role = "in" THEN origin.node ELSE hp.node

\* The first unused identifier the model gives a created input or output.
FreshIds(mdl, origin) ==
    SelectSeq(IF origin.role = "in" THEN NewInputIds ELSE NewOutputIds,
              LAMBDA n : n \notin DOMAIN mdl.pos)

\* Pointer-down on a port: the start callback.  hidden is the state
\* GraphNode.createGhostIO() hands the ghost out in.
PortDragStart ==
    \E origin \in PortOrigins, hidden \in BOOLEAN :
      \E pref \in GatherValidConnectionPoints(Dom, origin) :
        LET D == Dom
            ports == AllConnectionPorts(D, origin)
            D1 == [D EXCEPT
                     !.nodes = [n \in DOMAIN D.nodes |->
                        [D.nodes[n] EXCEPT
                           !.pin = IF Port("in", n) \in pref
                                   THEN @ \cup {"connection-suggestion"} ELSE @,
                           !.pout = IF Port("out", n) \in pref
                                    THEN @ \cup {"connection-suggestion"} ELSE @,
                           !.cls = IF \E q \in pref : q.node = n
                                   THEN @ \cup {"highlighted", "connection-suggestion"}
                                   ELSE @]],
                     !.wf = @ \cup {"has-suggestion", "edge-dragging"}]
            at == ToScreen(matrix, PortPos(nodes, origin))
        IN  /\ session.kind = "none"
            /\ origin.node \in DOMAIN nodes
            /\ FreshIds(model, origin) # <<>>
            /\ Handled
            /\ isDragging' = TRUE
            /\ wbcr' = SvgRect
            /\ pd' = [pd EXCEPT !.origin = origin, !.ports = ports,
                                !.dir = EdgeDirection(origin),
                                !.ghost = [present |-> TRUE, hidden |-> hidden,
                                           x |-> RZero, y |-> RZero],
                                !.originNode = [x |-> nodes[origin.node].x,
                                                y |-> nodes[origin.node].y],
                                !.edge = TRUE]
            /\ SetDom(D1)
            /\ session' = [kind |-> "port", down |-> at, last |-> at]
            /\ effects' = <<>>
            /\ zoomObs' = ZoomNone(zoomObs.external)
            /\ obs' = [ObsInit EXCEPT !.rel = obs.rel, !.clicked = obs.clicked]
            /\ UNCHANGED <<scale, fitListeners, matrix, model, dragBoundary, dbi, timers, nd, pan,
                           arrVars>>

\* The move callback of the port drag.
PortDragMove ==
    \E p \in Points :
        LET px == R(p[1])
            py == R(p[2])
            dp == [x |-> RSub(px, session.down.x), y |-> RSub(py, session.down.y)]
            coords == TranslateMouseCoords(matrix, px, py)
            origin == PortPos(nodes, pd.origin)
            n2m == Dist2(pd.originNode.x, pd.originNode.y, coords.x, coords.y)
            B == BoundaryZones(px, py, wbcr, dragBoundary)
            S1 == ClearIfInterior(Scroll, B)
            band == IF B.x # 0 \/ B.y # 0 THEN AdjustBoundary(wbcr, dragBoundary)
                    ELSE dragBoundary
            S2 == SetIntervalIfNecessary(S1, B, TimerClosure("port", "", n2m), TRUE, pd.hp)
            sd == ScaledDelta(B, matrix, scale, wbcr, band, S2.dbi, origin, dp)
            hp0 == IF S2.dbi.highlightedPort # NoPort THEN S2.dbi.highlightedPort ELSE pd.hp
            res == HighlightPortOrShowGhostNode(
                       RemoveHighlightedPort(Dom, hp0, pd.dir), pd.ghost, pd.ports,
                       coords, n2m, pd.dir,
                       [x |-> RAdd(origin.x, sd.x), y |-> RAdd(origin.y, sd.y)])
        IN  /\ session.kind = "port"
            /\ Handled
            /\ dragBoundary' = band
            /\ SetScroll(S2)
            /\ SetDom(res.dom)
            /\ pd' = [pd EXCEPT !.hp = res.hp, !.ghost = res.ghost]
            /\ session' = [session EXCEPT !.last = [x |-> px, y |-> py]]
            /\ effects' = <<>>
            /\ zoomObs' = ZoomNone(zoomObs.external)
            /\ obs' = [obs EXCEPT !.b = B, !.moved = TRUE,
                                  !.hadTimer = @ \/ S2.timers # {},
                                  !.resolved = res.hp]
            /\ UNCHANGED <<scale, fitListeners, matrix, model, wbcr, isDragging, nd, pan, arrVars>>

\* The clean-up every release ends with.
ReleaseCleanup(D, dir) ==
    LET transient == {"connection-suggestion", "preferred-node", "preferred-port"}
        gone == {"connection-suggestion", "highlighted", "preferred-node",
                 "preferred-port", dir}
        strip(S) == IF S \cap transient # {} THEN S \ gone ELSE S
        D1 == [D EXCEPT
                 !.wf = @ \ {"has-suggestion", "edge-dragging"},
                 !.nodes = [n \in DOMAIN D.nodes |->
                              [D.nodes[n] EXCEPT !.cls = strip(@), !.pin = strip(@),
                                                 !.pout = strip(@)]]]
        sel == SelectedEls(D1)
    IN  IF sel = <<>> THEN D1 ELSE ActivateSelection(D1, sel[1])

\* The end callback of the port drag.
PortDragEnd ==
    LET hp == IF dbi.highlightedPort # NoPort THEN dbi.highlightedPort ELSE pd.hp
        S == ToDefault(Scroll)
        src == SourceOf(pd.origin, hp)
        dst == DestinationOf(pd.origin, hp)
        snap == hp # NoPort
        connect == snap /\ ShouldConnect(Dom, src, dst)
        create == ~snap /\ ~pd.ghost.hidden
        new == FreshIds(model, pd.origin)[1]
        B == BoundaryZones(session.last.x, session.last.y, wbcr, dragBoundary)
        mouseCoords == TranslateMouseCoords(matrix, session.last.x, session.last.y)
        newX == IF B.x = 0 THEN mouseCoords.x
                ELSE TranslateMouseCoords(matrix,
                        IF B.x = -1 THEN RAdd(R(wbcr.left), dragBoundary)
                        ELSE RSub(R(wbcr.right), dragBoundary), RZero).x
        newY == IF B.y = 0 THEN mouseCoords.y
                ELSE TranslateMouseCoords(matrix, RZero,
                        IF B.y = -1 THEN RAdd(R(wbcr.top), dragBoundary)
                        ELSE RSub(R(wbcr.bottom), dragBoundary)).y
        io == IF pd.origin.role = "in" THEN "input" ELSE "output"
        newPort == Port(Opposite(pd.origin.role), new)
        D1 == IF connect
              THEN [Dom EXCEPT !.edges = Append(@, EdgeEl(src, dst))]
              ELSE IF create
              THEN [Dom EXCEPT
                      !.nodes = [n \in DOMAIN nodes \cup {new} |->
                                   IF n = new THEN NodeEl(newX, newY) ELSE nodes[n]],
                      !.order = Append(SelectSeq(@, LAMBDA m : m # new), new),
                      !.edges = Append(@, EdgeEl(SourceOf(pd.origin, newPort),
                                                 DestinationOf(pd.origin, newPort)))]
              ELSE Dom
        D2 == IF snap /\ hp.node \in DOMAIN D1.nodes
              THEN DropPortCls(D1, hp, {"highlighted"}) ELSE D1
        near == Nearest(pd.ports, pd.ghost)
        nearPort == IF near # 0 /\ Within(Dist2(pd.ghost.x, pd.ghost.y,
                                       pd.ports[near].x, pd.ports[near].y), SnapRadius)
                    THEN pd.ports[near].port ELSE NoPort
        nearP == Nearest(pd.ports, mouseCoords)
    IN  /\ session.kind = "port"
        /\ Handled
        /\ isDragging' = FALSE
        /\ SetScroll(S)
        /\ SetDom(ReleaseCleanup(D2, pd.dir))
        /\ IF connect
           THEN /\ model' = [model EXCEPT !.conns = Append(@, [src |-> src, dst |-> dst])]
                /\ effects' = <<"beforeChange:connect", "spawnEdge", "model.connect">>
                /\ UNCHANGED <<scale, fitListeners, matrix>>
           ELSE IF create
           THEN /\ model' =
                     [pos |-> [n \in DOMAIN model.pos \cup {new} |->
                                 IF n = new THEN mouseCoords ELSE model.pos[n]],
                      conns |-> Append(model.conns,
                                   [src |-> SourceOf(pd.origin, newPort),
                                    dst |-> DestinationOf(pd.origin, newPort)])]
                /\ effects' = <<"beforeChange:" \o io \o ".create", "model.create:" \o io,
                                "createNode">> \o SetModelPositionCalls \o
                               <<"spawnEdge">>
                /\ scale' = scale
                /\ fitListeners' = fitListeners + 1
                /\ matrix' = ScaleMatrix(matrix, scale, RZero, RZero)
           ELSE /\ effects' = <<>>
                /\ UNCHANGED <<model, scale, matrix, fitListeners>>
        /\ pd' = [PdNone EXCEPT !.hp = IF snap THEN NoPort ELSE pd.hp]
        /\ session' = SessionNone
        /\ zoomObs' = ZoomNone(zoomObs.external)
        /\ obs' = [obs EXCEPT !.rel =
                     [ReleaseOf("port") EXCEPT
                        !.hp = hp,
                        !.marked = \E i \in 1..Len(pd.ports) :
                                       "highlighted" \in PortCls(Dom, pd.ports[i].port),
                        !.ghostHidden = pd.ghost.hidden,
                        !.origin = pd.origin,
                        !.near = nearPort,
                        !.nearJoined = nearPort # NoPort /\
                                       FindEdge(Dom, SourceOf(pd.origin, nearPort),
                                                DestinationOf(pd.origin, nearPort)),
                        !.nearPointer =
                            IF nearP # 0 /\ Within(Dist2(mouseCoords.x, mouseCoords.y,
                                    pd.ports[nearP].x, pd.ports[nearP].y), SnapRadius)
                            THEN pd.ports[nearP].port ELSE NoPort,
                        !.farPointer = Beyond(Dist2(pd.originNode.x, pd.originNode.y,
                                            mouseCoords.x, mouseCoords.y), GhostThreshold),
                        !.far = Beyond(Dist2(pd.originNode.x, pd.originNode.y,
                                             pd.ghost.x, pd.ghost.y), GhostThreshold),
                        !.joined = snap /\ FindEdge(Dom, src, dst)]]
        /\ UNCHANGED <<dragBoundary, wbcr, nd, pan, arrVars>>

(***************************************************************************)
(* The scroll tick: the function a live interval runs.                     *)
(***************************************************************************)
Tick ==
    \E t \in timers :
        LET moveX == t.dirX * DragBoundaryTranslation
            moveY == t.dirY * DragBoundaryTranslation
            ax == AdaptToScale(R(moveX), scale)
            ay == AdaptToScale(R(moveY), scale)
            ghost == [pd.ghost EXCEPT !.x = RAdd(@, ax), !.y = RAdd(@, ay)]
            res == HighlightPortOrShowGhostNode(
                       RemoveHighlightedPort(Dom, dbi.highlightedPort, pd.dir),
                       ghost, pd.ports, ghost, t.n2m, pd.dir, ghost)
        IN  /\ Handled
            /\ matrix' = [matrix EXCEPT !.e = RSub(@, R(moveX)), !.f = RSub(@, R(moveY))]
            /\ IF t.kind = "node"
               THEN /\ nodes' = IF t.el \in DOMAIN nodes
                                THEN [nodes EXCEPT ![t.el].x = RAdd(@, ax),
                                                   ![t.el].y = RAdd(@, ay)]
                                ELSE nodes
                    /\ dbi' = [dbi EXCEPT !.xOffset = RAdd(@, ax), !.yOffset = RAdd(@, ay)]
                    /\ UNCHANGED <<nodeOrder, edges, wfCls, pd>>
               ELSE /\ SetDom(res.dom)
                    /\ pd' = [pd EXCEPT !.ghost = res.ghost]
                    /\ dbi' = [dbi EXCEPT !.xOffset = RAdd(@, ax), !.yOffset = RAdd(@, ay),
                                          !.highlightedPort = res.hp]
            /\ effects' = <<>>
            /\ zoomObs' = ZoomNone(zoomObs.external)
            /\ obs' = [obs EXCEPT !.ticks.x = RAdd(@, ax), !.ticks.y = RAdd(@, ay),
                                  !.nticks.x = @ + t.dirX, !.nticks.y = @ + t.dirY,
                                  !.resolved = IF t.kind = "port" THEN res.hp ELSE @]
            /\ UNCHANGED <<scale, fitListeners, model, dragBoundary, timers, wbcr, isDragging, session,
                           nd, pan, arrVars>>

(***************************************************************************)
(* Auto-arrange: the "workflow.arrange" handler.                           *)
(* A connection is [s, sp, d]: source node, source port and destination    *)
(* node names, the parts of c.source.id and c.destination.id split on "/". *)
(***************************************************************************)

\* Math.max() of no arguments is -Infinity; IEEE arithmetic keeps it there.
NegInf == -1000000

JsAdd(a, b) == IF a = NegInf \/ b = NegInf THEN NegInf ELSE a + b

JsMax(a, b) == IF a < b THEN b ELSE a

\* Append k to the key list unless present (property insertion order).
AddKey(keys, k) ==
    IF \E i \in 1..Len(keys) : keys[i] = k THEN keys ELSE Append(keys, k)

RECURSIVE TrackerKeys(_)
TrackerKeys(conns) ==
    IF conns = <<>> THEN <<>>
    ELSE LET n == Len(conns)
             c == conns[n]
         IN  AddKey(AddKey(TrackerKeys(SubSeq(conns, 1, n - 1)), c.s), c.d)

SeqToSet(q) == {q[i] : i \in 1..Len(q)}

\* tracker[k]: the dependencies pushed for k, one per connection into k,
\* in connection order, repeated connections repeated.
RECURSIVE TrackerOf(_, _)
TrackerOf(conns, k) ==
    IF conns = <<>> THEN <<>>
    ELSE LET n == Len(conns)
             c == conns[n]
             rest == TrackerOf(SubSeq(conns, 1, n - 1), k)
         IN  IF c.d = k THEN Append(rest, c.s) ELSE rest

\* workflowIns: the nodes whose connection has source name = source port.
WorkflowIns(conns) == {conns[i].s : i \in {j \in 1..Len(conns) : conns[j].s = conns[j].sp}}

UnvisitedKeepAll(arr, visited) == arr

\* arr.filter(e => !visited.has(e))
Unvisited(arr, visited) == SelectSeq(arr, LAMBDA e : e \notin visited)

\* trace(arr, visited), with the visited set threaded through the calls in
\* evaluation order.  fuel caps the recursion depth of the model; a trace
\* that exhausts it is reported as diverged.
RECURSIVE Trace(_, _, _, _)
RECURSIVE TraceAll(_, _, _, _)
Trace(conns, k, visited, fuel) ==
    LET vis1 == visited \cup {k}
        arr == TrackerOf(conns, k)
    IN  IF fuel = 0
        THEN [val |-> 0, vis |-> vis1, depth |-> 0, diverged |-> TRUE]
        ELSE IF Len(arr) = 0
        THEN [val |-> 1, vis |-> vis1, depth |-> 1, diverged |-> FALSE]
        ELSE LET r == TraceAll(conns, Unvisited(arr, vis1), vis1, fuel - 1)
             IN  [val |-> JsAdd(1, r.val), vis |-> r.vis,
                  depth |-> 1 + r.depth, diverged |-> r.diverged]

\* Math.max(...todo.map(e => trace(e, visited)))
TraceAll(conns, todo, visited, fuel) ==
    IF todo = <<>>
    THEN [val |-> NegInf, vis |-> visited, depth |-> 0, diverged |-> FALSE]
    ELSE LET h == Trace(conns, Head(todo), visited, fuel)
             t == TraceAll(conns, Tail(todo), h.vis, fuel)
         IN  [val |-> JsMax(h.val, t.val), vis |-> t.vis,
              depth |-> JsMax(h.depth, t.depth),
              diverged |-> h.diverged \/ t.diverged]

\* The recursion depth the model allows a single trace.
TraceFuel == 8

\* idToZoneMap after the reduce: trace(tracker[k], new Set()) - 1 per key.
InitialZones(conns) ==
    [k \in SeqToSet(TrackerKeys(conns)) |->
        JsAdd(Trace(conns, k, {}, TraceFuel).val, -1)]

\* tracker[k].filter(p => workflowIns.has(p)).forEach(pre => zone[pre] = zone[k] - 1)
RECURSIVE PinRoots(_, _, _)
PinRoots(zones, pres, k) ==
    IF pres = <<>> THEN zones
    ELSE PinRoots([zones EXCEPT ![Head(pres)] = JsAdd(zones[k], -1)], Tail(pres), k)

\* trackerKeys.forEach(k => ...) of the root adjustment, in key order.
RECURSIVE AdjustRoots(_, _, _)
AdjustRoots(conns, zones, keys) ==
    IF keys = <<>> THEN zones
    ELSE LET k == Head(keys)
             pres == SelectSeq(TrackerOf(conns, k), LAMBDA p : p \in WorkflowIns(conns))
         IN  AdjustRoots(conns, PinRoots(zones, pres, k), Tail(keys))

ArrangeZones(conns) == AdjustRoots(conns, InitialZones(conns), TrackerKeys(conns))

\* What the traces of one arrange call did: deepest recursion, divergence.
TraceObservation(conns) ==
    LET keys == SeqToSet(TrackerKeys(conns))
        t(k) == Trace(conns, k, {}, TraceFuel)
    IN  [depth |-> IF keys = {} THEN 0
                   ELSE CHOOSE m \in {t(k).depth : k \in keys} :
                            \A k \in keys : t(k).depth <= m,
         diverged |-> \E k \in keys : t(k).diverged]

\* ~~z of the placement loop: ToInt32 of the zone's property name; NaN and
\* the infinities give 0.
ToInt32(z) == IF z = NegInf THEN 0 ELSE z

\* zones[zone]: the nodes pushed for one zone, in trackerKeys order.
ZoneMembers(keys, zones, z) == SelectSeq(keys, LAMBDA k : zones[k] = z)

\* The position of k in a list that holds it once.
IndexIn(q, k) == CHOOSE i \in 1..Len(q) : q[i] = k

\* Placement by the row index of trackerKeys instead of the zone's own list.
PlaceByKeyIndex(keys, zones, width, height) ==
    LET columnCount == Cardinality({zones[k] : k \in SeqToSet(keys)}) + 1
        columnWidth == Frac(width, columnCount)
    IN  [k \in SeqToSet(keys) |->
            LET rowCount == Len(ZoneMembers(keys, zones, zones[k])) + 1
                rowHeight == Frac(height, rowCount)
            IN  <<RMul(columnWidth, R(ToInt32(zones[k]) + 1)),
                  RMul(R(IndexIn(keys, k)), rowHeight)>>]

\* The translation each node element gets: column by zone, row by the
\* node's place in its zone's list.
Place(keys, zones, width, height) ==
    LET columnCount == Cardinality({zones[k] : k \in SeqToSet(keys)}) + 1
        columnWidth == Frac(width, columnCount)
    IN  [k \in SeqToSet(keys) |->
            LET members == ZoneMembers(keys, zones, zones[k])
                rowCount == Len(members) + 1
                rowHeight == Frac(height, rowCount)
            IN  <<RMul(columnWidth, R(ToInt32(zones[k]) + 1)),
                  RMul(R(IndexIn(members, k)), rowHeight)>>]

\* clientWidth and clientHeight of the paper's svg element.
PaperSizes == { <<1000, 600>>, <<900, 400>> }

\* Inputs of the arrange command: lists over a pool of connections holding
\* a chain, a diamond, a shortcut, cycles and workflow inputs (s = sp).
Conn(s, sp, d) == [s |-> s, sp |-> sp, d |-> d]

ConnPool ==
    { Conn("A", "o", "B"), Conn("A", "o", "C"), Conn("B", "o", "C"),
      Conn("B", "o", "D"), Conn("C", "o", "D"), Conn("D", "o", "B"),
      Conn("C", "o", "A"), Conn("I", "I", "B"), Conn("I", "I", "D") }

MaxConns == 4

ConnLists == UNION {[1..n -> ConnPool] : n \in 0..MaxConns}

ArrInit ==
    /\ arrConnections = <<>>
    /\ idToZoneMap = <<>>
    /\ arrKeys = <<>>
    /\ arrTrace = [depth |-> 0, diverged |-> FALSE, ran |-> FALSE]
    /\ arrPlaced = [width |-> 0, height |-> 0, at |-> <<>>]

\* command("workflow.arrange", connections).  tracker, zones and idToZoneMap
\* are locals of the handler, built afresh by every call.
Arrange ==
    /\ ~arrTrace.ran
    /\ \E conns \in ConnLists, size \in PaperSizes :
        /\ arrConnections' = conns
        /\ arrPlaced' = [width |-> size[1], height |-> size[2],
                         at |-> Place(TrackerKeys(conns), ArrangeZones(conns),
                                      size[1], size[2])]
        /\ arrKeys' = TrackerKeys(conns)
        /\ idToZoneMap' = ArrangeZones(conns)
        /\ arrTrace' = [depth |-> TraceObservation(conns).depth,
                        diverged |-> TraceObservation(conns).diverged,
                        ran |-> TRUE]
    /\ UNCHANGED uiVars

\* The handler has returned and its locals are gone; the next command may come.
ArrangeReturn ==
    /\ arrTrace.ran
    /\ arrConnections' = <<>>
    /\ idToZoneMap' = <<>>
    /\ arrKeys' = <<>>
    /\ arrTrace' = [depth |-> 0, diverged |-> FALSE, ran |-> FALSE]
    /\ arrPlaced' = [width |-> 0, height |-> 0, at |-> <<>>]
    /\ UNCHANGED uiVars

NextArrange == Arrange \/ ArrangeReturn

Init == UiInit /\ ArrInit

SpecArrange == Init /\ [][NextArrange]_vars

(***************************************************************************)
(* The drag machine: node moves, pans and port drags, with the scroll      *)
(* ticks and wheel events that arrive in between.                          *)
(***************************************************************************)
Next ==
    \/ NodeDragStart
    \/ NodeDragMove
    \/ NodeDragEnd
    \/ PanStart
    \/ PanMove
    \/ PanEnd
    \/ PortDragStart
    \/ PortDragMove
    \/ PortDragEnd
    \/ Tick
    \/ Wheel

Spec == Init /\ [][Next]_vars

(***************************************************************************)
(* Zooming: wheel events, the public scale operations, node creation and   *)
(* re-rendering, with pans in between.                                     *)
(***************************************************************************)
MaxZoomEvents == 4

NextZoom ==
    \/ budget < MaxZoomEvents /\ Wheel
    \/ budget < MaxZoomEvents /\ ScaleWorkflowCall
    \/ budget < MaxZoomEvents /\ CommandScale
    \/ budget < MaxZoomEvents /\ CommandFit
    \/ budget < MaxZoomEvents /\ FitToViewportCall
    \/ budget < MaxZoomEvents /\ CreateStep
    \/ budget < MaxZoomEvents /\ Redraw
    \/ budget < MaxZoomEvents /\ PanStart
    \/ budget < MaxZoomEvents /\ PanMove
    \/ budget < MaxZoomEvents /\ PanEnd

SpecZoom == Init /\ [][NextZoom]_vars

(***************************************************************************)
(* Selecting: clicks, deletions, re-renders and port drags.                *)
(***************************************************************************)
\* Number of handled events in a selection session.
MaxSelectEvents == 4

NextSelect ==
    \/ budget < MaxSelectEvents /\ ClickBlank
    \/ budget < MaxSelectEvents /\ ClickNode
    \/ budget < MaxSelectEvents /\ ClickEdge
    \/ budget < MaxSelectEvents /\ DeleteKey
    \/ budget < MaxSelectEvents /\ Redraw
    \/ budget < MaxSelectEvents /\ PortDragStart
    \/ budget < MaxSelectEvents /\ PortDragMove
    \/ budget < MaxSelectEvents /\ PortDragEnd
    \/ budget < MaxSelectEvents /\ Tick

SpecSelect == Init /\ [][NextSelect]_vars

\* Every handler that writes to the data model: node move, port drag,
\* clicks and the delete key.
NextChange ==
    \/ NodeDragStart
    \/ NodeDragMove
    \/ NodeDragEnd
    \/ PortDragStart
    \/ PortDragMove
    \/ PortDragEnd
    \/ ClickNode
    \/ ClickEdge
    \/ DeleteKey

SpecChange == Init /\ [][NextChange]_vars

(***************************************************************************)
(* Teardown: destroy() in the middle of node drags, scroll ticks and wheel *)
(* events.                                                                 *)
(***************************************************************************)
\* clearCanvas as destroy() runs it: the listeners registered through
\* DomEvents are detached, the workflow group is emptied and its class reset.
\* eventHub.empty() follows; the hub holds no state of the canvas.
Destroy ==
    /\ ~obs.destroyed
    /\ Handled
    /\ nodes' = [n \in {} |-> NodeEl(RZero, RZero)]
    /\ nodeOrder' = <<>>
    /\ edges' = <<>>
    /\ wfCls' = {}
    /\ obs' = [obs EXCEPT !.destroyed = TRUE]
    /\ effects' = <<>>
    /\ zoomObs' = ZoomNone(zoomObs.external)
    /\ fitListeners' = 0
    /\ UNCHANGED <<scale, matrix, model, scrollVars, dragVars, arrVars>>

\* After detachAll no handler registered through DomEvents runs; the wheel
\* listener and a running interval are not registered there.
NextDestroy ==
    \/ Destroy
    \/ ~obs.destroyed /\ NodeDragStart
    \/ ~obs.destroyed /\ NodeDragMove
    \/ ~obs.destroyed /\ NodeDragEnd
    \/ Tick
    \/ Wheel

SpecDestroy == Init /\ [][NextDestroy]_vars

(***************************************************************************)
(* Node drags on canvases of several sizes.                                *)
(***************************************************************************)
NextResize ==
    \/ NodeDragStartResized
    \/ NodeDragMove
    \/ NodeDragEnd
    \/ Tick

SpecResize == Init /\ [][NextResize]_vars

(***************************************************************************)
(* Claims about auto-arrange.                                              *)
(***************************************************************************)
\* The nodes reachable from the set S along connections, in at most n steps.
RECURSIVE ReachIn(_, _, _)
ReachIn(conns, S, n) ==
    IF n = 0 THEN S
    ELSE ReachIn(conns,
                 S \cup {conns[i].d : i \in {j \in 1..Len(conns) : conns[j].s \in S}},
                 n - 1)

\* k lies on a cycle of the connection list.
OnCycle(conns, k) ==
    \E i \in 1..Len(conns) :
        /\ conns[i].s = k
        /\ k \in ReachIn(conns, {conns[i].d}, Len(conns))

Acyclic(conns) == \A i \in 1..Len(conns) : ~OnCycle(conns, conns[i].s)

HasRepeat(conns) ==
    \E i, j \in 1..Len(conns) : i # j /\ conns[i].s = conns[j].s /\ conns[i].d = conns[j].d

\* C9: every arrange call returns: no depth trace exhausts the recursion
\* allowance, and none recurses deeper than the number of nodes in the list.
C9_ArrangeTerminates ==
    arrTrace.ran => (~arrTrace.diverged /\ arrTrace.depth <= Len(arrKeys))

\* An arrange call ran on a list with a cycle and a repeated connection.
C9_Witness ==
    /\ arrTrace.ran
    /\ ~Acyclic(arrConnections)
    /\ HasRepeat(arrConnections)
    /\ arrTrace.depth >= 2

\* C10: on an acyclic list every connection's destination lies in a zone
\* strictly greater than its source's.
C10_ZonesIncrease ==
    (arrTrace.ran /\ Acyclic(arrConnections)) =>
        \A i \in 1..Len(arrConnections) :
            idToZoneMap[arrConnections[i].d] > idToZoneMap[arrConnections[i].s]

\* The connection list is a linear chain over the node list q: one
\* connection from each node to the next and nothing else.
IsChainOver(conns, q) ==
    /\ Len(conns) = Len(q) - 1
    /\ \A i, j \in 1..Len(q) : i # j => q[i] # q[j]
    /\ \A i \in 1..(Len(q) - 1) :
        \E c \in 1..Len(conns) : conns[c].s = q[i] /\ conns[c].d = q[i + 1]

ChainNodes == {"A", "B", "C", "D", "I"}

\* C11: on a linear chain of four nodes the zones are 0, 1, 2, 3 in chain
\* order, every node sits at row offset height/2, and the column coordinate
\* strictly increases along the chain.
C11_ChainZones ==
    arrTrace.ran =>
        \A q \in [1..4 -> ChainNodes] :
            IsChainOver(arrConnections, q) =>
                /\ \A i \in 1..4 : idToZoneMap[q[i]] = i - 1
                /\ \A i \in 1..4 : arrPlaced.at[q[i]][2] = Frac(arrPlaced.height, 2)
                /\ \A i \in 1..3 : RLt(arrPlaced.at[q[i]][1], arrPlaced.at[q[i + 1]][1])

\* An arrange call ran on the chain A -> B -> C -> D, given out of order.
C11_Witness ==
    /\ arrTrace.ran
    /\ IsChainOver(arrConnections, <<"A", "B", "C", "D">>)
    /\ arrConnections[1].s = "C"
    /\ idToZoneMap["D"] = 3
    /\ arrPlaced.at["D"] = <<R(800), R(300)>>

\* k depends on r: a connection leads from r into k.
DependsOn(conns, k, r) == \E i \in 1..Len(conns) : conns[i].s = r /\ conns[i].d = k

\* C12: after an arrange on an acyclic list, every root that other nodes
\* depend on sits one zone before some dependent and strictly below every
\* dependent.
C12_RootsPinned ==
    (arrTrace.ran /\ Acyclic(arrConnections)) =>
        \A r \in WorkflowIns(arrConnections) :
            LET deps == {k \in SeqToSet(arrKeys) : DependsOn(arrConnections, k, r)}
            IN  deps # {} =>
                    /\ \E k \in deps : idToZoneMap[r] = idToZoneMap[k] - 1
                    /\ \A k \in deps : idToZoneMap[r] < idToZoneMap[k]

\* C25: after an arrange on any connection list, cycles included, every
\* zone assigned is a finite integer that is not negative, and a node that
\* is not a workflow input and has no dependencies is in zone 0.
C25_ZonesFiniteNonNegative ==
    arrTrace.ran =>
        \A i \in 1..Len(arrKeys) :
            LET k == arrKeys[i]
            IN  /\ idToZoneMap[k] # NegInf
                /\ idToZoneMap[k] >= 0
                /\ (/\ k \notin WorkflowIns(arrConnections)
                    /\ \A r \in SeqToSet(arrKeys) : ~DependsOn(arrConnections, k, r))
                       => idToZoneMap[k] = 0

(***************************************************************************)
(* Claims about the drag machine (Spec).                                   *)
(***************************************************************************)
JustReleased(kind) == obs.rel.at = budget /\ obs.rel.kind = kind

\* C1: once a node move or a port drag has ended, wherever the pointer was
\* released, no scroll timer is live and the auto-scroll state is at its
\* defaults, so no tick can change the viewport or an element any more.
C1_TimerClearedAtEnd ==
    session.kind = "none" => (timers = {} /\ dbi = DbiDefault)

\* A node move and a port drag were released inside a boundary band while a
\* timer was running.
C1_Witness ==
    /\ obs.rel.at = budget
    /\ obs.rel.kind \in {"node", "port"}
    /\ obs.rel.live
    /\ obs.rel.inBand
    /\ session.kind = "none"

\* Where the claim puts the node on one axis: start + pointer delta / scale
\* + the scaled tick steps of the session.
ClaimedX ==
    RAdd(RAdd(nd.startX, AdaptToScale(RSub(session.last.x, session.down.x), scale)),
         obs.ticks.x)

ClaimedY ==
    RAdd(RAdd(nd.startY, AdaptToScale(RSub(session.last.y, session.down.y), scale)),
         obs.ticks.y)

C4_ReleaseCreatesOne ==
    (JustReleased("port") /\ obs.moved) =>
        LET added == DOMAIN nodes \ obs.rel.nodes0
            r == obs.rel
        IN  /\ (r.near # NoPort /\ r.nearPointer = r.near /\ ~r.nearJoined) =>
                  /\ added = {}
                  /\ Len(edges) = r.edges0 + 1
                  /\ edges[Len(edges)].src = SourceOf(r.origin, r.near)
                  /\ edges[Len(edges)].dst = DestinationOf(r.origin, r.near)
            /\ (r.near = NoPort /\ r.nearPointer = NoPort /\ r.far /\ r.farPointer) =>
                  /\ Cardinality(added) = 1
                  /\ Len(edges) = r.edges0 + 1
                  /\ {edges[Len(edges)].src, edges[Len(edges)].dst} \cap added # {}
            /\ added # {} =>
                  /\ Len(edges) = r.edges0 + 1
                  /\ {edges[Len(edges)].src, edges[Len(edges)].dst} \cap added # {}

\* C5: a release on a port already joined to the origin port creates no
\* edge and calls nothing; no two edges join the same pair.
C5_NoDuplicateEdge ==
    /\ \A i, j \in 1..Len(edges) :
          (edges[i].src = edges[j].src /\ edges[i].dst = edges[j].dst) => i = j
    /\ (JustReleased("port") /\ obs.rel.joined) =>
          /\ effects = <<>>
          /\ Len(edges) = obs.rel.edges0
          /\ model = obs.rel.model0

\* A drag from an input port was released on the output port it is joined to.
C5_Witness ==
    /\ JustReleased("port")
    /\ obs.rel.joined
    /\ obs.rel.origin.role = "in"
    /\ Len(edges) = 2

\* C6: a release with no port highlighted and the ghost hidden mutates
\* nothing: no element, no model operation, no notification.
C6_DeadReleaseNoMutation ==
    (JustReleased("port") /\ ~obs.rel.marked /\ obs.rel.ghostHidden) =>
        /\ effects = <<>>
        /\ DOMAIN nodes = obs.rel.nodes0
        /\ Len(edges) = obs.rel.edges0
        /\ model = obs.rel.model0

(***************************************************************************)
(* Claims about zooming (SpecZoom).                                        *)
(***************************************************************************)
\* C3: whatever wheel zooms, scaleWorkflow calls, fitToViewport calls, node
\* creations and re-renders have happened, 0.15 < scale and scale^2 <= 3.
C3_ScaleInBand == InBand(scale) /\ matrix.a = scale

\* C8: after scaleWorkflow(f, p) with f in the band, the canvas point that
\* was under p before the call is under p still.
C8_AnchorInvariance ==
    (zoomObs.op \in {"wheel", "scale"} /\ ~zoomObs.rejected /\ zoomObs.anchored
        /\ InBand(zoomObs.factor)) =>
        ToScreen(matrix, zoomObs.c) = zoomObs.p

\* A zoom to another scale, anchored away from the canvas origin, on a
\* panned canvas.
C8_Witness ==
    /\ zoomObs.op \in {"wheel", "scale"}
    /\ ~zoomObs.rejected
    /\ zoomObs.anchored
    /\ InBand(zoomObs.factor)
    /\ zoomObs.factor # ROne
    /\ zoomObs.c.x # RZero
    /\ matrix.e # RZero
    /\ pan.x # Undef

(***************************************************************************)
(* Claims about selecting (SpecSelect).                                    *)
(***************************************************************************)
\* C7: at most one element, node or edge, carries the selected marker.
C7_AtMostOneSelected == Len(SelectedEls(Dom)) <= 1

\* A second click has moved the selection to another element.
C7_Witness ==
    /\ obs.clicked >= 2
    /\ Len(SelectedEls(Dom)) = 1
    /\ SelectedEls(Dom)[1].t = "edge"

(***************************************************************************)
(* Claims about change notifications (SpecChange).                         *)
(***************************************************************************)
\* The beforeChange tag that belongs to a data-model operation.
TagOf ==
    [op \in {"model.connect", "model.create:input", "model.create:output",
             "model.removeStep", "model.removeInput", "model.removeOutput",
             "model.disconnect", "model.position"} |->
        CASE op = "model.connect" -> "beforeChange:connect"
          [] op = "model.create:input" -> "beforeChange:input.create"
          [] op = "model.create:output" -> "beforeChange:output.create"
          [] op = "model.position" -> "beforeChange:move"
          [] OTHER -> "beforeChange:deletion"]

\* C13: in every handler, each data-model operation comes after a
\* beforeChange notification with the operation's tag, and the first thing
\* a mutating handler emits is a notification; the data model changes only
\* in handlers that notified.
C13_NotifiedBeforeMutation ==
    /\ \A i \in 1..Len(effects) :
          effects[i] \in DOMAIN TagOf =>
              \E j \in 1..(i - 1) : effects[j] = TagOf[effects[i]]
    /\ (\E i \in 1..Len(effects) : effects[i] \in DOMAIN TagOf) =>
          effects[1] \in {TagOf[op] : op \in DOMAIN TagOf}

\* A ghost release just created an input node: two notifications, two
\* operations on the data model.
C13_Witness ==
    /\ JustReleased("port")
    /\ \E i, j \in 1..Len(effects) :
          i < j /\ effects[i] = "model.create:input" /\ effects[j] = "model.position"

(***************************************************************************)
(* Claims about scale requests and fitting (SpecZoom).                     *)
(***************************************************************************)
\* C14: a scaleWorkflow call whose factor lies outside the zoom band leaves
\* this.scale and the transform matrix as they were.
C14_OutOfBandRejected ==
    [][(zoomObs'.op = "scale" /\ ~InBand(zoomObs'.factor)) =>
          (scale' = scale /\ matrix' = matrix)]_vars

C16_FitFailsOnEmptyViewport ==
    zoomObs.op = "fit" =>
        (zoomObs.rejected <=> (zoomObs.p.x = RZero \/ zoomObs.p.y = RZero))

\* A fit failed on a viewport without width.
C16_Witness ==
    /\ zoomObs.op = "fit"
    /\ zoomObs.rejected
    /\ zoomObs.p = Pt(0, 600)

(***************************************************************************)
(* Claims about the auto-scroll state during a drag (Spec).                *)
(***************************************************************************)
\* A step in which the move callback of the open node or port drag ran: an
\* event was handled, the session stays open, no tick and no wheel event.
MoveStep ==
    /\ session.kind \in {"node", "port"}
    /\ session'.kind = session.kind
    /\ budget' = budget + 1
    /\ obs'.ticks = obs.ticks
    /\ zoomObs'.op = "none"

\* A move that finds the pointer in the interior on both axes while an
\* interval is registered.
InteriorMoveStep ==
    /\ MoveStep
    /\ obs'.b.x = 0
    /\ obs'.b.y = 0
    /\ dbi.interval # 0

\* C17 as stated: after such a move no timer is live and every field of the
\* auto-scroll state, xOffset and yOffset included, is at its default.
C17_InteriorMoveResetsAll ==
    [][InteriorMoveStep => (timers' = {} /\ dbi' = DbiDefault)]_vars

\* C17, amended: after such a move no timer is live and x, y, interval and
\* highlightedPort are at their defaults; xOffset and yOffset keep what the
\* ticks of the session have added up to.
C17_InteriorMoveClearsTimer ==
    [][InteriorMoveStep =>
          /\ timers' = {}
          /\ dbi' = [DbiDefault EXCEPT !.xOffset = dbi.xOffset,
                                       !.yOffset = dbi.yOffset]]_vars

\* A drag came back to the interior after ticks had scrolled the canvas: the
\* timer is gone and the offset is still there.
C17_Witness ==
    /\ session.kind \in {"node", "port"}
    /\ obs.moved
    /\ obs.hadTimer
    /\ obs.b = [x |-> 0, y |-> 0]
    /\ obs.ticks.x # RZero
    /\ timers = {}
    /\ dbi.interval = 0
    /\ dbi.xOffset = obs.ticks.x

(***************************************************************************)
(* Claims about the committed node position (Spec).                        *)
(***************************************************************************)
\* C18: when a node move has just ended, the position stored in the node's
\* model is the node's rendered translation.
C18_CommittedIsRendered ==
    (JustReleased("node") /\ nd.el \in DOMAIN model.pos /\ nd.el \in DOMAIN nodes) =>
        model.pos[nd.el] = [x |-> nodes[nd.el].x, y |-> nodes[nd.el].y]

(***************************************************************************)
(* Claims about what a port drag leaves behind (SpecSelect).               *)
(***************************************************************************)
TransientMarkers ==
    {"connection-suggestion", "preferred-node", "preferred-port", "left", "right"}

\* The highlighted markers of the canvas D.
Highlights(D) ==
    [nodes |-> Marks(D).nodes, pins |-> Marks(D).pins, pouts |-> Marks(D).pouts,
     edges |-> Marks(D).edges]

NoHighlights == [nodes |-> {}, pins |-> {}, pouts |-> {}, edges |-> {}]

\* C19: when a port drag has just been released, no element carries a
\* transient marker and the in-progress edge and the ghost are gone; with
\* nothing selected no highlighted marker is left on a canvas that had none
\* when the drag began, and with an element selected the highlighted
\* markers are those a click on that element gives.
C19_ReleaseLeavesNoMarker ==
    JustReleased("port") =>
        /\ \A n \in DOMAIN nodes :
              (nodes[n].cls \cup nodes[n].pin \cup nodes[n].pout) \cap TransientMarkers = {}
        /\ wfCls \cap {"has-suggestion", "edge-dragging"} = {}
        /\ ~pd.ghost.present
        /\ ~pd.edge
        /\ IF SelectedEls(Dom) = <<>>
           THEN (obs.marks0.selected = <<>> /\ obs.marks0.nodes = {}
                    /\ obs.marks0.pins = {} /\ obs.marks0.pouts = {}
                    /\ obs.marks0.edges = {}) =>
                        Highlights(Dom) = NoHighlights
           ELSE Highlights(Dom) = Highlights(DispatchClick(Dom, SelectedEls(Dom)[1]))

(***************************************************************************)
(* Claims about deselectEverything (SpecSelect).                           *)
(***************************************************************************)
\* No highlighted marker, no selected marker, no has-selection on D.
Unmarked(D) ==
    /\ Highlights(D) = NoHighlights
    /\ SelectedEls(D) = <<>>
    /\ "has-selection" \notin D.wf

\* C20: on every canvas the program reaches, between drags or in one,
\* deselectEverything leaves no highlighted, selected or has-selection
\* marker, a second call changes nothing more, and on a canvas without
\* markers the call changes nothing.
C20_DeselectIdempotent ==
    /\ Unmarked(DeselectEverything(Dom))
    /\ DeselectEverything(DeselectEverything(Dom)) = DeselectEverything(Dom)
    /\ Unmarked(Dom) => DeselectEverything(Dom) = Dom

\* A canvas with a selected node, has-selection and a port highlighted by a
\* port drag in progress, which deselectEverything clears of all of them.
C20_Witness ==
    /\ session.kind = "port"
    /\ SelectedEls(Dom) # <<>>
    /\ "has-selection" \in wfCls
    /\ Highlights(Dom).pins \cup Highlights(Dom).pouts # {}
    /\ Highlights(Dom).edges # {}
    /\ DeselectEverything(Dom) # Dom
    /\ Unmarked(DeselectEverything(Dom))

(***************************************************************************)
(* Claims about deletion (SpecChange).                                     *)
(***************************************************************************)
\* The data-model operation that removes an element of the given kind.
RemovalOf ==
    [k \in {"step", "input", "output"} |->
        CASE k = "step" -> "model.removeStep"
          [] k = "input" -> "model.removeInput"
          [] k = "output" -> "model.removeOutput"]

\* C21: a delete key with nothing selected emits and calls nothing and
\* leaves model and canvas alone; with an element selected the handler
\* notifies, calls the one operation of the element's kind, which takes the
\* element out of the data model, and re-renders, so that the canvas shows
\* the nodes and connections of the data model.
C21_DeleteByKind ==
    [][DeleteKey =>
          LET sel == SelectedEls(Dom)
          IN  IF sel = <<>>
              THEN /\ effects' = <<>>
                   /\ model' = model
                   /\ <<nodes', nodeOrder', edges', wfCls'>> = <<nodes, nodeOrder, edges, wfCls>>
              ELSE /\ Len(sel) = 1
                   /\ effects' = <<"beforeChange:deletion",
                                   IF sel[1].t = "edge" THEN "model.disconnect"
                                   ELSE RemovalOf[NodeKind[sel[1].id]],
                                   "renderModel">>
                   /\ IF sel[1].t = "edge"
                      THEN /\ \A i \in 1..Len(model'.conns) :
                                 ~(/\ model'.conns[i].src = edges[sel[1].idx].src
                                   /\ model'.conns[i].dst = edges[sel[1].idx].dst)
                           /\ DOMAIN model'.pos = DOMAIN model.pos
                      ELSE /\ sel[1].id \notin DOMAIN model'.pos
                           /\ DOMAIN model'.pos = DOMAIN model.pos \ {sel[1].id}
                   /\ DOMAIN nodes' = DOMAIN model'.pos
                   /\ Len(edges') = Len(model'.conns)]_vars

\* The delete key has just removed an input node that a port drag created.
C21_Witness ==
    /\ effects = <<"beforeChange:deletion", "model.removeInput", "renderModel">>
    /\ DOMAIN nodes = {"S1", "S2", "S3"}
    /\ Len(edges) = 2

(***************************************************************************)
(* Claims about the selection across a re-render (SpecSelect).             *)
(***************************************************************************)
\* The element of canvas D that has the identity of element el of canvas D0:
\* a node by its id, an edge by the two ends it joins.
SameElement(D0, el, D) ==
    IF el.t = "node"
    THEN IF el.id \in DOMAIN D.nodes THEN {NodeRef(el.id)} ELSE {}
    ELSE {EdgeRef(j) : j \in {i \in 1..Len(D.edges) :
                                 /\ D.edges[i].src = D0.edges[el.idx].src
                                 /\ D.edges[i].dst = D0.edges[el.idx].dst}}

\* C22: after a re-render (redraw, or the one that ends a deletion) the
\* element selected before is selected again, highlights included, when the
\* new rendering holds it, and nothing is selected otherwise.
C22_SelectionFollowsIdentifier ==
    [][(Redraw \/ DeleteKey) =>
          LET sel == SelectedEls(Dom)
              kept == IF sel = <<>> THEN {} ELSE SameElement(Dom, sel[1], Dom')
          IN  IF kept = {}
              THEN SelectedEls(Dom') = <<>>
              ELSE \E el \in kept :
                      /\ SelectedEls(Dom') = <<el>>
                      /\ Highlights(Dom') = Highlights(DispatchClick(Dom', el))]_vars

(***************************************************************************)
(* Claims about the command interface (SpecZoom).                          *)
(***************************************************************************)
\* C23: when command("workflow.scale", f) has just been issued with a
\* factor f inside the zoom band, the viewport scale is f.
C23_ScaleCommandSetsScale ==
    (zoomObs.op = "command.scale" /\ InBand(zoomObs.factor)) =>
        scale = zoomObs.factor

(***************************************************************************)
(* Claims about teardown (SpecDestroy).                                    *)
(***************************************************************************)
\* C24: once destroy() has run, no step changes the scale, the viewport
\* transform or the contents of the canvas.
C24_NothingMovesAfterDestroy ==
    [][obs.destroyed =>
          /\ scale' = scale
          /\ matrix' = matrix
          /\ <<nodes', nodeOrder', edges', wfCls'>> = <<nodes, nodeOrder, edges, wfCls>>]_vars

(***************************************************************************)
(* Claims about the scroll ticks (Spec).                                   *)
(***************************************************************************)
\* C26: every tick translates the viewport, on each axis, by the fixed step
\* against the boundary the most recent move of the session reported.
C26_TickFollowsLastMove ==
    [][Tick =>
          /\ matrix'.e = RSub(matrix.e, R(obs.b.x * DragBoundaryTranslation))
          /\ matrix'.f = RSub(matrix.f, R(obs.b.y * DragBoundaryTranslation))]_vars

\* The canvas position of the element a timer moves: the dragged node, or
\* the ghost of a port drag.
TimerElement(t) ==
    IF t.kind = "node" THEN [x |-> nodes[t.el].x, y |-> nodes[t.el].y]
    ELSE [x |-> pd.ghost.x, y |-> pd.ghost.y]

\* C27: a tick of a timer with direction d at scale s moves the viewport
\* translation by -d * step and the dragged element and the offset by
\* d * step / s, so the element stays where it is on the screen; during a
\* drag the offset is the signed number of ticks times step / s.
C27_TickArithmetic ==
    /\ [](session.kind \in {"node", "port"} =>
            /\ dbi.xOffset = RDiv(R(obs.nticks.x * DragBoundaryTranslation), scale)
            /\ dbi.yOffset = RDiv(R(obs.nticks.y * DragBoundaryTranslation), scale))
    /\ [][Tick =>
            \E t \in timers :
                LET sx == R(t.dirX * DragBoundaryTranslation)
                    sy == R(t.dirY * DragBoundaryTranslation)
                IN  /\ matrix'.e = RSub(matrix.e, sx)
                    /\ matrix'.f = RSub(matrix.f, sy)
                    /\ matrix'.a = matrix.a
                    /\ dbi'.xOffset = RAdd(dbi.xOffset, RDiv(sx, scale))
                    /\ dbi'.yOffset = RAdd(dbi.yOffset, RDiv(sy, scale))
                    /\ TimerElement(t)'.x = RAdd(TimerElement(t).x, RDiv(sx, scale))
                    /\ TimerElement(t)'.y = RAdd(TimerElement(t).y, RDiv(sy, scale))
                    /\ ToScreen(matrix', TimerElement(t)') = ToScreen(matrix, TimerElement(t))]_vars

\* Two ticks of the left band have run at scale 1/2 during a node move.
C27_Witness ==
    /\ session.kind = "node"
    /\ scale = Frac(1, 2)
    /\ obs.nticks.x = -2
    /\ dbi.xOffset = R(-20)
    /\ matrix.e = R(260)

(***************************************************************************)
(* Claims about the boundary band (SpecResize).                            *)
(***************************************************************************)
\* C28: once a move of the session has been in a band, so that the band has
\* adjusted itself to the measured rectangle, twice the band is less than
\* the rectangle's width and less than its height.
C28_BandsFitRectangle ==
    (session.kind = "node" /\ obs.hadTimer) =>
        /\ RLt(RMul(R(2), dragBoundary), R(wbcr.right - wbcr.left))
        /\ RLt(RMul(R(2), dragBoundary), R(wbcr.bottom - wbcr.top))

(***************************************************************************)
(* Claims about the port connection resolver (Spec).                       *)
(***************************************************************************)
\* What a resolver step that leaves the free end of the in-progress edge at
\* fe has to decide: hp is the port it returned, hidden the ghost's state.
DecidedFromFreeEnd(fe, hp, hidden) ==
    LET i == Nearest(pd.ports, fe)
        hit == i # 0 /\ Within(Dist2(fe.x, fe.y, pd.ports[i].x, pd.ports[i].y),
                               SnapRadius)
        away == Beyond(Dist2(fe.x, fe.y, pd.originNode.x, pd.originNode.y),
                       GhostThreshold)
    IN  IF hit
        THEN hp = pd.ports[i].port /\ hidden
        ELSE hp = NoPort /\ (hidden <=> ~away)

\* C29: a resolver step, run by a move or by a scroll tick, decides from
\* where it leaves the free end: the nearest candidate within 100 is
\* highlighted and the ghost hidden, otherwise nothing is highlighted and
\* the ghost is shown exactly when the free end is more than 120 from the
\* origin node.
C29_ResolverUsesFreeEnd ==
    [][/\ PortDragMove =>
            DecidedFromFreeEnd([x |-> pd'.ghost.x, y |-> pd'.ghost.y],
                               pd'.hp, pd'.ghost.hidden)
       /\ (Tick /\ session.kind = "port") =>
            DecidedFromFreeEnd([x |-> pd'.ghost.x, y |-> pd'.ghost.y],
                               dbi'.highlightedPort, pd'.ghost.hidden)]_vars

\* C30: a release that joins the origin port to a port of an existing node
\* joins it to the port the most recent resolver step of the drag returned;
\* when that step returned no port, the release joins no existing port.
C30_ReleaseUsesLastResolved ==
    JustReleased("port") =>
        LET r == obs.rel
        IN  (DOMAIN nodes = r.nodes0 /\ Len(edges) = r.edges0 + 1) =>
                /\ obs.resolved # NoPort
                /\ edges[Len(edges)].src = SourceOf(r.origin, obs.resolved)
                /\ edges[Len(edges)].dst = DestinationOf(r.origin, obs.resolved)

\* The ports that carry a snap-highlight marker.
SnapMarked ==
    {q \in {Port(r, n) : r \in {"in", "out"}, n \in DOMAIN nodes} :
        PortCls(Dom, q) \cap {"highlighted", "preferred-port"} # {}}

\* C31: during a port drag, whatever moves and scroll ticks have run, at
\* most one port carries the snap-highlight marker.
C31_OneSnapHighlight ==
    session.kind = "port" => Cardinality(SnapMarked) <= 1

\* C32: when a port-drag release has spawned a node, the position stored in
\* the data model for it is the position it is rendered at, and that
\* position is on the screen between the inner edges of the boundary bands.
C32_SpawnedPositionPersisted ==
    JustReleased("port") =>
        \A n \in DOMAIN nodes \ obs.rel.nodes0 :
            LET at == ToScreen(matrix, nodes[n])
            IN  /\ n \in DOMAIN model.pos
                /\ model.pos[n].x = nodes[n].x
                /\ model.pos[n].y = nodes[n].y
                /\ RLe(RAdd(R(wbcr.left), dragBoundary), at.x)
                /\ RLe(at.x, RSub(R(wbcr.right), dragBoundary))
                /\ RLe(RAdd(R(wbcr.top), dragBoundary), at.y)
                /\ RLe(at.y, RSub(R(wbcr.bottom), dragBoundary))

\* C33: a mousewheel event that arrives while a node move, a pan or a port
\* drag is in progress changes neither the scale nor the viewport transform.
C33_WheelCancelledInDrag ==
    [][(Wheel /\ session.kind \in {"node", "pan", "port"}) =>
          (scale' = scale /\ matrix' = matrix)]_vars

\* C34: at most one scroll timer is live and the stored state describes it:
\* a live timer is the one whose handle is stored; with no handle stored no
\* timer is live, no axis is registered and no port is kept; with a handle
\* stored an axis is registered.
C34_OneTimerDescribed ==
    /\ Cardinality(timers) <= 1
    /\ \A t \in timers : t.id = dbi.interval
    /\ dbi.interval = 0 =>
          (timers = {} /\ ~dbi.x /\ ~dbi.y /\ dbi.highlightedPort = NoPort)
    /\ dbi.interval # 0 =>
          (timers # {} /\ (dbi.x \/ dbi.y))

\* A node move has gone from a side band, where a tick ran, into a corner:
\* the timer of the side band was replaced by one for both axes.
C34_Witness ==
    /\ session.kind = "node"
    /\ dbi.x /\ dbi.y
    /\ obs.nticks.x # 0
    /\ obs.nticks.y = 0
    /\ \E t \in timers : t.dirX = 1 /\ t.dirY = 1

\* C35: when command("workflow.fit") has just been issued, after whatever
\* wheel zooms, scale calls, node creations and re-renders, the fit routine
\* has run at most once.
C35_FitRunsOnce ==
    zoomObs.op = "command.fit" => Len(effects) <= 1

\* The nodes the last arrange call placed.
Placed == DOMAIN arrPlaced.at

PlacedInside ==
    \A k \in Placed :
        /\ RLt(RZero, arrPlaced.at[k][1]) /\ RLt(arrPlaced.at[k][1], R(arrPlaced.width))
        /\ RLt(RZero, arrPlaced.at[k][2]) /\ RLt(arrPlaced.at[k][2], R(arrPlaced.height))

PlacedOnGrid ==
    LET zoneCount == Cardinality({idToZoneMap[k] : k \in Placed})
    IN  \A k \in Placed :
            LET count == Cardinality({j \in Placed : idToZoneMap[j] = idToZoneMap[k]})
            IN  /\ \E c \in 1..zoneCount :
                    arrPlaced.at[k][1] = RMul(R(c), Frac(arrPlaced.width, zoneCount + 1))
                /\ \E i \in 1..count :
                    arrPlaced.at[k][2] = RMul(R(i), Frac(arrPlaced.height, count + 1))

PlacedApart ==
    \A k, j \in Placed : k # j => arrPlaced.at[k] # arrPlaced.at[j]

\* C36: after workflow.arrange on a canvas of positive width and height every
\* placed node lies strictly inside the canvas, on the grid of columns
\* width/(zoneCount+1) apart and rows height/(count+1) apart, and no two
\* nodes have the same coordinates.
C36_ArrangedInsideAndApart ==
    arrTrace.ran => (PlacedInside /\ PlacedOnGrid /\ PlacedApart)

====
